---- MODULE Spec2Model ----
(***************************************************************************)
(* OrbiSyncNode (ESP8266/ESP32 hub client): the session state machine,     *)
(* the control-plane HTTP exchanges, the WebSocket tunnel life cycle and   *)
(* the inbound tunnel message handler of OrbiSyncNode.cpp (the variant     *)
(* with pairing, approve, register_ack parsing and proxy_request), its     *)
(* HTTP transport with the TLS fallback, and, further down, the earlier    *)
(* variant of the same file with heartbeat, command polling, last_error_   *)
(* and segmented request streams.                                          *)
(*                                                                         *)
(* Time is millis() in milliseconds.  Strings that the code only tests for *)
(* emptiness (tokens, urls, pairing code) are "" or one fixed value;       *)
(* correlation ids are sequences of characters so that copies into fixed   *)
(* buffers truncate as strncpy does.                                       *)
(***************************************************************************)
EXTENDS Integers, Sequences, FiniteSets, TLC

VARIABLES
  cfg,      \* Config cfg_ (immutable after construction)
  node,     \* the OrbiSyncNode fields
  ws,       \* the file-static WebSocket globals and the client's link state
  now,      \* millis()
  wifiUp,   \* WiFi.status() == WL_CONNECTED
  obs,      \* what the last operation did: requests, frames, observer calls
  hist      \* history (ghost) variables used to state the temporal claims

vars == <<cfg, node, ws, now, wifiUp, obs, hist>>

----------------------------------------------------------------------------
(* Tunables of OrbiSyncNode.cpp *)

kBackoffMinMs == 2000
kBackoffMaxMs == 60000
kTunnelPingIntervalMs == 25000
kTunnelBackoffSteps == 5
kTunnelBackoffMs == <<2000, 4000, 8000, 15000, 60000>>
kDefaultMaxTunnelBody == 4096
kRequestIdSize == 48
kWriterBodySize == 2048
kDefaultRetryAfterMs == 3000
kDefaultApproveRetryMs == 3000
kDefaultRegisterRetryMs == 4000
kPairExpiredRetryMs == 1000
kAfterHelloDelayMs == 500
kSessionCadenceMs == 60000
kSession404RetryMs == 5000
kTunnelNoTokenRetryMs == 3000

(* Bounds of the model *)
MaxNow == 8000           \* the clock stops advancing here
MaxIdLen == 49           \* longest correlation id drawn
MaxNowTunnel == 30000    \* the same, in the tunnel phase
MaxApiCalls == 1         \* calls of the public API between ticks per behaviour

Min(a, b) == IF a < b THEN a ELSE b

States == {"BOOT", "HELLO", "PAIR_SUBMIT", "PENDING_POLL", "GRANTED", "ACTIVE",
           "TUNNEL_CONNECTING", "TUNNEL_CONNECTED", "ERROR"}

AuthedStates == {"GRANTED", "ACTIVE", "TUNNEL_CONNECTING", "TUNNEL_CONNECTED"}

----------------------------------------------------------------------------
(* Config: the fields the modelled code reads.  hubBaseUrl / slotId /      *)
(* loginToken / approveEndpointPath are TRUE when the pointer is set and   *)
(* the string non-empty.                                                   *)

(* The user's HttpRequestCallback: what it does with the response writer.  *)
NoHandler == [registered |-> FALSE, status |-> 200, body |-> <<>>, endCalls |-> 0]

MkCfg(hub, slot, tun, selfApprove, bySlot) ==
  [hubBaseUrl |-> hub, slotId |-> slot, enableTunnel |-> tun,
   enableSelfApprove |-> selfApprove, approveEndpointPath |-> selfApprove,
   preferRegisterBySlot |-> bySlot, loginToken |-> bySlot,
   approveRetryMs |-> 0, registerRetryMs |-> 0, maxTunnelBodyBytes |-> 0,
   ledPin |-> -1, httpRequestCb |-> NoHandler]

(* the last one: enableSelfApprove set, approveEndpointPath left null *)
Configs ==
  { MkCfg(TRUE, TRUE, FALSE, TRUE, TRUE),
    MkCfg(TRUE, TRUE, FALSE, FALSE, FALSE),
    MkCfg(FALSE, TRUE, FALSE, TRUE, FALSE),
    MkCfg(TRUE, FALSE, FALSE, FALSE, FALSE),
    [MkCfg(TRUE, TRUE, FALSE, TRUE, FALSE) EXCEPT !.approveEndpointPath = FALSE] }

TunnelConfig == MkCfg(TRUE, TRUE, TRUE, TRUE, FALSE)

cfgOrDefaultU32(v, defv) == IF v # 0 THEN v ELSE defv

----------------------------------------------------------------------------
(* Hub replies to one control POST.  ok is safePostJson's return value     *)
(* (a status line and a non-empty body were read); body names the parsed   *)
(* JSON: "badjson" does not parse, the others carry the fields the code    *)
(* reads.  tok / ntok / tun: session_token / node token / tunnel_url       *)
(* present and non-empty.  ms: how long the blocking call took.            *)

Reply(ok, status, body, tok, ntok, tun) ==
  [ok |-> ok, status |-> status, body |-> body, tok |-> tok, ntok |-> ntok,
   tun |-> tun, retry |-> kDefaultRetryAfterMs, ms |-> 0]

TransportFail == Reply(FALSE, 0, "", FALSE, FALSE, FALSE)

AuthFail == { Reply(TRUE, s, "err", FALSE, FALSE, FALSE) : s \in {401, 403, 410} }

ServerError == Reply(TRUE, 500, "err", FALSE, FALSE, FALSE)

BadJson == Reply(TRUE, 200, "badjson", FALSE, FALSE, FALSE)

HelloReplies ==
  {TransportFail, ServerError, BadJson} \cup AuthFail \cup
  { Reply(TRUE, 200, b, FALSE, FALSE, FALSE) :
      b \in {"DENIED", "PENDING", "PENDING_CODE", "APPROVED", "APPROVED_CODE"} }

PairReplies ==
  {TransportFail, ServerError, BadJson, Reply(TRUE, 200, "OK_FALSE", FALSE, FALSE, FALSE)} \cup
  { Reply(TRUE, 200, "OK_TRUE", t, nt, FALSE) : t \in BOOLEAN, nt \in BOOLEAN }

ApproveReplies ==
  {TransportFail, ServerError, BadJson, Reply(TRUE, 400, "missing_mac", FALSE, FALSE, FALSE)} \cup
  AuthFail \cup
  { Reply(TRUE, 200, "granted", t, FALSE, FALSE) : t \in BOOLEAN } \cup
  { Reply(TRUE, 200, "granted", FALSE, TRUE, TRUE) }

SessionReplies ==
  {TransportFail, BadJson, Reply(TRUE, 404, "err", FALSE, FALSE, FALSE)} \cup AuthFail \cup
  { Reply(TRUE, 200, b, FALSE, FALSE, FALSE) : b \in {"PENDING", "DENIED"} } \cup
  { Reply(TRUE, 200, "GRANTED", t, FALSE, FALSE) : t \in BOOLEAN }

RegisterReplies ==
  {TransportFail, ServerError, BadJson,
   Reply(TRUE, 200, "MISSING", FALSE, FALSE, FALSE),
   Reply(TRUE, 200, "FULL", FALSE, TRUE, TRUE)}

Is2xx(status) == status >= 200 /\ status < 300
IsAuthFail(status) == status \in {401, 403, 410}

----------------------------------------------------------------------------
(* The world threaded through one operation: node fields n, WebSocket      *)
(* globals ws, the clock t, and the log of what the operation did.         *)

InitNode ==
  [state |-> "BOOT",
   nextHelloMs |-> 0, nextPairMs |-> 0, nextApproveMs |-> 0,
   nextSessionPollMs |-> 0, nextRegisterBySlotMs |-> 0,
   netBackoffMs |-> kBackoffMinMs, pairBackoffMs |-> kBackoffMinMs,
   nextTunnelConnectMs |-> 0,
   tunnelBackoffMs |-> kTunnelBackoffMs[1], tunnelBackoffIndex |-> 0,
   lastTunnelPingMs |-> 0, tunnelRegistered |-> FALSE,
   approveMissingMacFailed |-> FALSE, httpBusy |-> FALSE,
   nodeId |-> "", nodeToken |-> "", tunnelUrl |-> "", sessionToken |-> "",
   pairingCode |-> "", pairingCodeValid |-> FALSE]

InitWs == [client |-> "null", nodeForWs |-> FALSE, pending |-> FALSE, connected |-> FALSE]

World ==
  [n |-> node, ws |-> ws, t |-> now, reqs |-> <<>>, frames |-> <<>>, cbs |-> <<>>,
   inLib |-> FALSE, uaf |-> hist.uaf, freedInCb |-> hist.freedInCb, inCb |-> FALSE]

Emit(w, cb, a, b) == [w EXCEPT !.cbs = Append(@, [cb |-> cb, a |-> a, b |-> b])]

(* setState without its first line *)
setStateUnguarded(w, s) ==
  Emit([w EXCEPT !.n.state = s,
                 !.n.nextTunnelConnectMs =
                    IF s = "ACTIVE" /\ cfg.enableTunnel /\ w.n.tunnelUrl # ""
                    THEN 0 ELSE @], "state", w.n.state, s)

setState(w, s) ==
  IF w.n.state = s THEN w
  ELSE LET old == w.n.state
           w1 == [w EXCEPT !.n.state = s,
                           !.n.nextTunnelConnectMs =
                              IF s = "ACTIVE" /\ cfg.enableTunnel /\ w.n.tunnelUrl # ""
                              THEN 0 ELSE @]
       IN Emit(w1, "state", old, s)

clearPairingCode(w) == [w EXCEPT !.n.pairingCode = "", !.n.pairingCodeValid = FALSE]

storePairingFromHello(w, code) ==
  IF code = "" THEN [w EXCEPT !.n.pairingCodeValid = FALSE]
  ELSE [w EXCEPT !.n.pairingCode = code, !.n.pairingCodeValid = TRUE]

isPairingExpired(w) == ~w.n.pairingCodeValid

(* advanceNetBackoff that leaves the counter where it is *)
advanceNetBackoffStuck(w) == w

advanceNetBackoff(w) ==
  [w EXCEPT !.n.netBackoffMs = IF @ * 2 > kBackoffMaxMs THEN kBackoffMaxMs ELSE @ * 2]

advancePairBackoff(w) ==
  [w EXCEPT !.n.pairBackoffMs = IF @ < kBackoffMaxMs \div 2 THEN @ * 2 ELSE kBackoffMaxMs]

resetNetBackoff(w) == [w EXCEPT !.n.netBackoffMs = kBackoffMinMs]

(* resetPairBackoff that leaves the counter where it is *)
resetPairBackoffKept(w) == w

resetPairBackoff(w) == [w EXCEPT !.n.pairBackoffMs = kBackoffMinMs]

buildWsTunnelUrl == cfg.hubBaseUrl

(* postJsonUnified: without a hub url nothing is sent and the call fails;  *)
(* otherwise one POST goes out and blocks for r.ms.  The log keeps the     *)
(* endpoint and what the hub answered.                                     *)
postJsonUnified(w, ep, r) ==
  IF ~cfg.hubBaseUrl THEN w
  ELSE [w EXCEPT !.reqs = Append(@, [ep |-> ep, ok |-> r.ok, status |-> r.status,
                                     body |-> r.body, tok |-> r.tok,
                                     ntok |-> r.ntok, tun |-> r.tun]),
                 !.t = @ + r.ms]

PostResult(r) == IF cfg.hubBaseUrl THEN r ELSE TransportFail

----------------------------------------------------------------------------
(* HELLO *)

handleHelloResponse(w, status, r) ==
  IF status = 410 THEN
    LET w1 == Emit(clearPairingCode(w), "sessionInvalid", "", "")
        w2 == [w1 EXCEPT !.n.nextHelloMs = w1.t + w1.n.netBackoffMs]
    IN setState(advanceNetBackoff(w2), "HELLO")
  ELSE IF status = 403 \/ status = 401 THEN
    LET w2 == [w EXCEPT !.n.nextHelloMs = w.t + w.n.netBackoffMs]
    IN setState(advanceNetBackoff(w2), "HELLO")
  ELSE IF ~Is2xx(status) \/ r.body = "badjson" THEN
    LET w1 == advanceNetBackoff(w)
    IN [w1 EXCEPT !.n.nextHelloMs = w1.t + w1.n.netBackoffMs]
  ELSE IF r.body = "DENIED" THEN
    LET w1 == Emit(setState(w, "ERROR"), "error", "HELLO denied", "")
    IN [w1 EXCEPT !.n.nextHelloMs = w1.t + r.retry]
  ELSE
    LET pc == IF r.body \in {"PENDING_CODE", "APPROVED_CODE"} THEN "ABC" ELSE ""
        w1 == IF pc # "" THEN storePairingFromHello(w, pc) ELSE clearPairingCode(w)
        w2 == resetNetBackoff(w1)
        w3 == [w2 EXCEPT !.n.nextHelloMs = w2.t + r.retry,
                         !.n.nextSessionPollMs = w2.t + r.retry,
                         !.n.nextApproveMs = w2.t + kAfterHelloDelayMs,
                         !.n.nextPairMs = w2.t + kAfterHelloDelayMs]
    IN IF w3.n.pairingCodeValid
       THEN IF cfg.enableSelfApprove /\ cfg.approveEndpointPath
            THEN setState(w3, "PENDING_POLL")
            ELSE setState(w3, "PAIR_SUBMIT")
       ELSE setState(w3, "HELLO")

tryHello(w, r) ==
  IF w.n.httpBusy THEN w
  ELSE IF w.t < w.n.nextHelloMs THEN w
  ELSE LET w1 == postJsonUnified(w, "hello", r)
           e  == PostResult(r)
       IN handleHelloResponse(w1, IF e.ok THEN e.status ELSE -1, e)

----------------------------------------------------------------------------
(* PAIR *)

StoreTunnelUrl(w, always, r) ==
  IF always /\ buildWsTunnelUrl
  THEN [w EXCEPT !.n.tunnelUrl = "wss", !.n.nextTunnelConnectMs = 0]
  ELSE IF r.tun THEN [w EXCEPT !.n.tunnelUrl = "wss", !.n.nextTunnelConnectMs = 0]
  ELSE w

tryPairIfNeeded(w, r) ==
  IF ~w.n.pairingCodeValid \/ w.n.pairingCode = "" THEN w
  ELSE IF w.n.httpBusy THEN w
  ELSE IF w.t < w.n.nextPairMs THEN w
  ELSE IF isPairingExpired(w) THEN
    LET w1 == setState(clearPairingCode(w), "HELLO")
    IN [w1 EXCEPT !.n.nextHelloMs = w1.t + kPairExpiredRetryMs]
  ELSE
    LET w1 == postJsonUnified(w, "pair", r)
        e  == PostResult(r)
    IN IF ~e.ok \/ ~Is2xx(e.status) THEN
         LET w2 == setState(advancePairBackoff(clearPairingCode(w1)), "HELLO")
         IN [w2 EXCEPT !.n.nextHelloMs = w2.t + w2.n.pairBackoffMs]
       ELSE IF e.body = "badjson" THEN
         LET w2 == setState(clearPairingCode(w1), "HELLO")
         IN [w2 EXCEPT !.n.nextHelloMs = w2.t + kDefaultRetryAfterMs]
       ELSE IF e.body # "OK_TRUE" THEN
         LET w2 == setState(advancePairBackoff(clearPairingCode(w1)), "HELLO")
         IN [w2 EXCEPT !.n.nextHelloMs = w2.t + w2.n.pairBackoffMs]
       ELSE
         LET w2 == [w1 EXCEPT !.n.nodeId = "n1",
                              !.n.sessionToken = IF e.tok THEN "tok" ELSE @,
                              !.n.nodeToken = IF e.ntok THEN "ntok" ELSE @]
             w3 == StoreTunnelUrl(w2, TRUE, e)
             w4 == clearPairingCode(resetPairBackoff(w3))
             w5 == setState(Emit(w4, "registered", w4.n.nodeId, ""), "ACTIVE")
         IN [w5 EXCEPT !.n.nextSessionPollMs = w5.t + kSessionCadenceMs]

----------------------------------------------------------------------------
(* APPROVE (self-approve) *)

(* the 400 missing_mac branch taken as an ordinary failure: retry later *)
approveMissingMacRetry(w) ==
  [Emit(w, "error", "approve: missing_mac", "")
     EXCEPT !.n.nextApproveMs = w.t + cfgOrDefaultU32(cfg.approveRetryMs, kDefaultApproveRetryMs)]

(* the 400 missing_mac branch of tryApprove *)
approveMissingMac(w) ==
  [Emit(w, "error", "approve: missing_mac", "") EXCEPT !.n.approveMissingMacFailed = TRUE]

tryApprove(w, r) ==
  IF w.n.httpBusy \/ w.n.approveMissingMacFailed THEN w
  ELSE IF ~cfg.approveEndpointPath THEN w
  ELSE IF w.t < w.n.nextApproveMs THEN w
  ELSE IF ~w.n.pairingCodeValid \/ w.n.pairingCode = "" THEN
    [w EXCEPT !.n.nextApproveMs = w.t + cfgOrDefaultU32(cfg.approveRetryMs, kDefaultApproveRetryMs)]
  ELSE
    LET w1 == postJsonUnified(w, "approve", r)
        e  == PostResult(r)
    IN IF ~e.ok THEN
         LET w2 == advanceNetBackoff(w1)
         IN [w2 EXCEPT !.n.nextApproveMs =
                          w2.t + cfgOrDefaultU32(cfg.approveRetryMs, kDefaultApproveRetryMs)]
       ELSE IF e.status = 400 /\ e.body = "missing_mac" THEN
         approveMissingMac(w1)
       ELSE IF IsAuthFail(e.status) THEN
         LET w2 == [clearPairingCode(w1) EXCEPT !.n.sessionToken = ""]
             w3 == setState(advanceNetBackoff(Emit(w2, "sessionInvalid", "", "")), "HELLO")
         IN [w3 EXCEPT !.n.nextHelloMs = w3.t + w3.n.netBackoffMs]
       ELSE IF ~Is2xx(e.status) THEN
         [w1 EXCEPT !.n.nextApproveMs =
                       w1.t + cfgOrDefaultU32(cfg.approveRetryMs, kDefaultApproveRetryMs)]
       ELSE IF e.body = "badjson" THEN
         [w1 EXCEPT !.n.nextApproveMs = w1.t + kDefaultApproveRetryMs]
       ELSE
         LET w2 == [w1 EXCEPT !.n.sessionToken = IF e.tok THEN "tok" ELSE @,
                              !.n.nodeToken = IF e.ntok THEN "ntok" ELSE @,
                              !.n.nodeId = "n1"]
             w3 == StoreTunnelUrl(w2, e.tok, e)
             w4 == [resetNetBackoff(w3) EXCEPT !.n.approveMissingMacFailed = FALSE]
             w5 == setState(Emit(w4, "registered", w4.n.nodeId, ""), "ACTIVE")
         IN [w5 EXCEPT !.n.nextSessionPollMs = w5.t + kSessionCadenceMs]

----------------------------------------------------------------------------
(* SESSION refresh and poll *)

(* trySessionRefresh that gives up before posting *)
trySessionRefreshSkipped(w, r) == [w |-> w, res |-> FALSE]

trySessionRefresh(w, r) ==
  IF w.n.sessionToken = "" \/ w.n.httpBusy THEN [w |-> w, res |-> FALSE]
  ELSE
    LET w1 == postJsonUnified(w, "session_refresh", r)
        e  == PostResult(r)
    IN IF ~e.ok THEN [w |-> w1, res |-> FALSE]
       ELSE IF IsAuthFail(e.status) THEN
         [w |-> Emit([w1 EXCEPT !.n.sessionToken = ""], "sessionInvalid", "", ""), res |-> FALSE]
       ELSE IF e.status # 200 /\ e.status # 201 THEN [w |-> w1, res |-> FALSE]
       ELSE IF e.body = "badjson" THEN [w |-> w1, res |-> FALSE]
       ELSE IF e.body # "GRANTED" THEN [w |-> w1, res |-> FALSE]
       ELSE
         LET w2 == [w1 EXCEPT !.n.sessionToken = IF e.tok THEN "tok" ELSE @]
             w3 == StoreTunnelUrl(w2, TRUE, e)
             w4 == setState(resetNetBackoff(w3), "ACTIVE")
         IN [w |-> [w4 EXCEPT !.n.nextSessionPollMs = w4.t + kSessionCadenceMs], res |-> TRUE]

trySessionPoll(w, r) ==
  IF w.n.httpBusy THEN w
  ELSE IF w.t < w.n.nextSessionPollMs THEN w
  ELSE
    LET w1 == postJsonUnified(w, "session", r)
        e  == PostResult(r)
    IN IF ~e.ok THEN
         LET w2 == advanceNetBackoff(w1)
         IN [w2 EXCEPT !.n.nextSessionPollMs = w2.t + w2.n.netBackoffMs]
       ELSE IF e.status = 404 THEN
         [w1 EXCEPT !.n.nextSessionPollMs = w1.t + kSession404RetryMs]
       ELSE IF IsAuthFail(e.status) THEN
         LET w2 == clearPairingCode([w1 EXCEPT !.n.sessionToken = ""])
             w3 == setState(advanceNetBackoff(Emit(w2, "sessionInvalid", "", "")), "HELLO")
         IN [w3 EXCEPT !.n.nextHelloMs = w3.t + w3.n.netBackoffMs]
       ELSE IF e.body \in {"badjson", "err"} THEN
         [w1 EXCEPT !.n.nextSessionPollMs = w1.t + kDefaultRetryAfterMs]
       ELSE
         LET w2 == IF e.body = "GRANTED" THEN
                     LET a == [w1 EXCEPT !.n.sessionToken = IF e.tok THEN "tok" ELSE @]
                         b == StoreTunnelUrl(a, e.tok, e)
                     IN setState(resetNetBackoff(b), "ACTIVE")
                   ELSE IF e.body = "DENIED" THEN
                     Emit(setState(w1, "ERROR"), "error", "Session denied", "")
                   ELSE w1
         IN [w2 EXCEPT !.n.nextSessionPollMs = w2.t + e.retry]

----------------------------------------------------------------------------
(* register_by_slot *)

tryRegisterBySlot(w, r) ==
  IF ~cfg.preferRegisterBySlot \/ ~cfg.loginToken THEN w
  ELSE IF w.n.httpBusy THEN w
  ELSE IF w.t < w.n.nextRegisterBySlotMs THEN w
  ELSE
    LET t0 == w.t
        w0 == postJsonUnified(w, "register_by_slot", r)
        e  == PostResult(r)
        w1 == [w0 EXCEPT !.n.nextRegisterBySlotMs =
                           t0 + cfgOrDefaultU32(cfg.registerRetryMs, kDefaultRegisterRetryMs)]
    IN IF ~e.ok THEN w1
       ELSE IF ~Is2xx(e.status) THEN w1
       ELSE IF e.body = "badjson" THEN w1
       ELSE IF e.body # "FULL" THEN w1
       ELSE
         LET w2 == [w1 EXCEPT !.n.nodeId = "n1", !.n.nodeToken = "ntok",
                              !.n.tunnelUrl = "wss", !.n.nextTunnelConnectMs = 0,
                              !.n.tunnelBackoffIndex = 0,
                              !.n.tunnelBackoffMs = kTunnelBackoffMs[1]]
         IN setState(Emit(w2, "registered", w2.n.nodeId, ""), "ACTIVE")

----------------------------------------------------------------------------
(* Base64 (bytes are 0..255; output symbols are indices into kBase64Chars, *)
(* 64 stands for '=').                                                     *)

kBase64Pad == 64

RECURSIVE base64Encode(_)
base64Encode(in) ==
  IF Len(in) = 0 THEN <<>>
  ELSE IF Len(in) >= 3 THEN
    << (in[1] \div 4) % 64,
       ((in[1] % 4) * 16) + (in[2] \div 16),
       ((in[2] % 16) * 4) + (in[3] \div 64),
       in[3] % 64 >> \o base64Encode(SubSeq(in, 4, Len(in)))
  ELSE IF Len(in) = 2 THEN
    << (in[1] \div 4) % 64,
       ((in[1] % 4) * 16) + (in[2] \div 16),
       (in[2] % 16) * 4,
       kBase64Pad >>
  ELSE
    << (in[1] \div 4) % 64, (in[1] % 4) * 16, kBase64Pad, kBase64Pad >>

----------------------------------------------------------------------------
(* The WebSocket client object and the file-static globals.                *)
(* client: "null" or "alloc" (s_wsClient); connected: client->isConnected().*)
(* inLib: a method of the client (loop, sendTXT) is on the call stack;     *)
(* inCb: wsEvent is on the call stack.  Deleting the client while inLib    *)
(* is a use after free: the library method resumes on the freed object.    *)

Frame(type, id, status, text, b64) ==
  [type |-> type, id |-> id, status |-> status, text |-> text, b64 |-> b64]

DeleteClient(w) ==
  [w EXCEPT !.ws.connected = FALSE,
            !.uaf = @ \/ w.inLib,
            !.freedInCb = @ \/ w.inCb]

(* the teardown with the backoff left where it was *)
tunnelDisconnectCleanupKeepStep(w) ==
  LET w1 == Emit([w EXCEPT !.n.tunnelRegistered = FALSE], "tunnel", "down", w.n.tunnelUrl)
      w2 == IF w1.n.state \in {"TUNNEL_CONNECTING", "TUNNEL_CONNECTED"}
            THEN setState(w1, "ACTIVE") ELSE w1
  IN [w2 EXCEPT !.n.nextTunnelConnectMs = w2.t + w2.n.tunnelBackoffMs]

tunnelDisconnectCleanup(w) ==
  LET w1 == Emit([w EXCEPT !.n.tunnelRegistered = FALSE], "tunnel", "down", w.n.tunnelUrl)
      w2 == IF w1.n.state \in {"TUNNEL_CONNECTING", "TUNNEL_CONNECTED"}
            THEN setState(w1, "ACTIVE") ELSE w1
      idx == IF w2.n.tunnelBackoffIndex < kTunnelBackoffSteps - 1
             THEN w2.n.tunnelBackoffIndex + 1 ELSE w2.n.tunnelBackoffIndex
  IN [w2 EXCEPT !.n.tunnelBackoffIndex = idx,
                !.n.tunnelBackoffMs = kTunnelBackoffMs[idx + 1],
                !.n.nextTunnelConnectMs = w2.t + kTunnelBackoffMs[idx + 1]]

(* A callback that tears the client down itself instead of deferring.      *)
wsEventDownFreeing(w) ==
  IF ~w.ws.nodeForWs THEN w
  ELSE tunnelDisconnectCleanup(
         DeleteClient([w EXCEPT !.ws.client = "null", !.ws.nodeForWs = FALSE]))

(* wsEvent for WStype_DISCONNECTED and WStype_ERROR: only the flag is set. *)
wsEventDown(w) ==
  IF ~w.ws.nodeForWs THEN w
  ELSE [w EXCEPT !.ws.pending = TRUE]

(* sendTXT on the client: "ok" sends, "fail" does not, "failDisc" does not *)
(* and the library reports the broken link through the event callback      *)
(* before it returns.                                                      *)
tunnelSendText(w, frame, snd) ==
  IF w.ws.client = "null" \/ ~w.ws.connected THEN [w |-> w, res |-> FALSE]
  ELSE IF snd = "ok" THEN [w |-> [w EXCEPT !.frames = Append(@, frame)], res |-> TRUE]
  ELSE IF snd = "fail" THEN [w |-> w, res |-> FALSE]
  ELSE LET w1 == [w EXCEPT !.ws.connected = FALSE, !.inLib = TRUE, !.inCb = TRUE]
           w2 == wsEventDown(w1)
       IN [w |-> [w2 EXCEPT !.inLib = w.inLib, !.inCb = w.inCb], res |-> FALSE]

tunnelSendRegister(w, snd) ==
  IF w.ws.client = "null" \/ ~w.ws.connected THEN w
  ELSE LET w1 == Emit(w, "tunnel", "up", w.n.tunnelUrl)
       IN IF w1.n.sessionToken = "" THEN w1
          ELSE tunnelSendText(w1, Frame("register", <<>>, 0, w1.n.sessionToken, <<>>), snd).w

(* disconnect() whose callback sets the flag whoever owns the client *)
DisconnectClientRearming(w, discCb) ==
  [w EXCEPT !.ws.connected = FALSE, !.ws.pending = @ \/ discCb]

(* client->disconnect(): the library may report the closed link through   *)
(* the event callback before it returns (discCb).                          *)
DisconnectClient(w, discCb) ==
  IF ~discCb THEN [w EXCEPT !.ws.connected = FALSE]
  ELSE LET w1 == [w EXCEPT !.ws.connected = FALSE, !.inLib = TRUE, !.inCb = TRUE]
           w2 == wsEventDown(w1)
       IN [w2 EXCEPT !.inLib = w.inLib, !.inCb = w.inCb]

tunnelDisconnect(w, discCb) ==
  LET had == w.ws.client # "null"
      w1  == [w EXCEPT !.ws.client = "null", !.ws.nodeForWs = FALSE]
      w2  == IF had THEN DeleteClient(DisconnectClient(w1, discCb)) ELSE w1
  IN tunnelDisconnectCleanup(w2)

tunnelConnect(w) ==
  IF w.ws.client # "null" THEN w
  ELSE IF w.n.tunnelUrl = "" THEN w
  ELSE IF w.n.sessionToken = "" THEN
    [w EXCEPT !.n.nextTunnelConnectMs = w.t + kTunnelNoTokenRetryMs, !.n.nextApproveMs = 0]
  ELSE [w EXCEPT !.ws.client = "alloc", !.ws.nodeForWs = TRUE, !.ws.connected = FALSE]

----------------------------------------------------------------------------
(* Inbound tunnel messages.  kind: "rpc" (the document has id and path),   *)
(* "register_ack", "HTTP_REQ", "proxy_request", "other", "badjson".        *)
(* id: the correlation id (id / stream_id / request_id), a sequence of     *)
(* bytes.  bodyLen: decoded length of a proxy_request body.                *)

Msg(kind, id, method, path, ack, reason, bodyLen) ==
  [kind |-> kind, id |-> id, method |-> method, path |-> path, ack |-> ack,
   reason |-> reason, bodyLen |-> bodyLen]

NoMsg == Msg("other", <<>>, "GET", "/", "", "", 0)

kRpcOutSize == 512
kRpcOverhead == 41
kHttpResBufSize == 512
kHttpResOverhead == 97
kHttpErrBufSize == 256
kHttpErrOverhead == 137
kProxyBufSize == 1536
kProxyOverhead == 115
kProxyOverheadPlain == 109
kMinBodySize == 128

IsLedOnPath(path) == path = "/led/on"
IsLedPath(path) == path \in {"/led/on", "/led/off"}

BytesOkPrefix == <<123, 34, 111, 107, 34, 58, 116, 114, 117, 101, 44, 34, 114, 101, 113,
                   117, 101, 115, 116, 95, 105, 100, 34, 58, 34>>
BytesOkSuffix == <<34, 125>>
BytesLedOn == <<123, 34, 111, 107, 34, 58, 116, 114, 117, 101, 44, 34, 118, 97, 108, 117,
                101, 34, 58, 49, 125>>
BytesTooLarge == <<80, 97, 121, 108, 111, 97, 100, 32, 84, 111, 111, 32, 76, 97, 114, 103,
                   101>>

(* TunnelHttpResponseWriter *)
NewWriter(reqId) ==
  [requestId |-> SubSeq(reqId, 1, Min(Len(reqId), kRequestIdSize - 1)),
   statusCode |-> 200, contentType |-> "", body |-> <<>>, ended |-> FALSE]

WriterSetStatus(res, code) == [res EXCEPT !.statusCode = code]

WriterSetHeader(res, ct) == [res EXCEPT !.contentType = ct]

WriterWrite(res, data) ==
  IF res.ended THEN res
  ELSE [res EXCEPT !.body = @ \o SubSeq(data, 1, Min(Len(data), kWriterBodySize - Len(@)))]

tunnelSendProxyResponse(w, res, snd) ==
  IF w.ws.client = "null" \/ ~w.ws.connected THEN w
  ELSE LET b64 == base64Encode(res.body)
           n   == (IF res.contentType = "text/plain" THEN kProxyOverheadPlain
                   ELSE kProxyOverhead) + Len(res.requestId) + Len(b64)
       IN IF n > 0 /\ n < kProxyBufSize
          THEN tunnelSendText(w, Frame("proxy_response", res.requestId, res.statusCode,
                                       "", b64), snd).w
          ELSE w

(* end() without its first line *)
WriterEndUnguarded(w, res, snd) ==
  [w |-> tunnelSendProxyResponse(w, [res EXCEPT !.ended = TRUE], snd),
   res |-> [res EXCEPT !.ended = TRUE]]

(* end(): returns the world and the writer *)
WriterEnd(w, res, snd) ==
  IF res.ended THEN [w |-> w, res |-> res]
  ELSE [w |-> tunnelSendProxyResponse(w, [res EXCEPT !.ended = TRUE], snd),
        res |-> [res EXCEPT !.ended = TRUE]]

(* end() called n times in a row; e is what the call before returned *)
RECURSIVE WriterEndAgain(_, _, _)
WriterEndAgain(e, n, snd) ==
  IF n = 0 THEN e ELSE WriterEndAgain(WriterEnd(e.w, e.res, snd), n - 1, snd)

WriterEndTimes(w, res, n, snd) == WriterEndAgain([w |-> w, res |-> res], n, snd)

(* httpRequestCb_(req, res) as the user wrote it: set the status, write    *)
(* the body, call end() no, one or two times.                              *)
RunHandler(w, res, h, snd) ==
  WriterEndTimes(w, WriterWrite(WriterSetStatus(res, h.status), h.body), h.endCalls, snd)

tunnelHandleProxyRequest(w, m, h, snd) ==
  LET maxBody == IF cfg.maxTunnelBodyBytes # 0 THEN cfg.maxTunnelBodyBytes
                 ELSE kDefaultMaxTunnelBody
      b64Len  == ((m.bodyLen + 2) \div 3) * 4
      est     == (b64Len \div 4) * 3 + 4
  IN IF m.bodyLen > 0 /\ est > maxBody THEN
       WriterEnd(w, WriterWrite(WriterSetHeader(WriterSetStatus(NewWriter(m.id), 413),
                                                "text/plain"), BytesTooLarge), snd).w
     ELSE
       LET res0 == WriterSetHeader(WriterSetStatus(NewWriter(m.id), 200), "application/json")
           minBody == BytesOkPrefix \o m.id \o BytesOkSuffix
           res1 == IF IsLedOnPath(m.path) THEN WriterWrite(res0, BytesLedOn)
                   ELSE IF Len(minBody) < kMinBodySize THEN WriterWrite(res0, minBody)
                   ELSE res0
           e1   == WriterEnd(w, res1, snd)
           e2   == IF h.registered THEN RunHandler(e1.w, e1.res, h, snd) ELSE e1
       IN IF ~e2.res.ended THEN WriterEnd(e2.w, e2.res, snd).w ELSE e2.w

(* the error branch with every reason treated like an unknown one *)
registerAckErrorAnyReason(w, reason) ==
  [w EXCEPT !.n.nextTunnelConnectMs = w.t + w.n.tunnelBackoffMs]

(* register_ack with status other than ok: what each reason does *)
registerAckError(w, reason) ==
  IF reason = "MISSING_AUTH_TOKEN" THEN
    [w EXCEPT !.n.sessionToken = "", !.n.nextApproveMs = 0,
              !.n.nextTunnelConnectMs = w.t + kTunnelNoTokenRetryMs]
  ELSE IF reason = "SLOT_ID_MISMATCH" THEN
    [w EXCEPT !.n.nextTunnelConnectMs = w.t + w.n.tunnelBackoffMs]
  ELSE IF reason = "SESSION_TOKEN_MISSING_SLOT_ID" THEN
    [w EXCEPT !.n.nextApproveMs = 0,
              !.n.nextTunnelConnectMs = w.t + kTunnelNoTokenRetryMs]
  ELSE [w EXCEPT !.n.nextTunnelConnectMs = w.t + w.n.tunnelBackoffMs]

tunnelHandleMessage(w, m, h, snd) ==
  IF m.kind = "badjson" THEN w
  ELSE IF m.kind = "rpc" THEN
    LET n == kRpcOverhead + Len(m.id) + (IF IsLedOnPath(m.path) THEN 10 ELSE 0)
    IN IF n > 0 /\ n < kRpcOutSize
       THEN tunnelSendText(w, Frame("rpc_response", m.id, 200, "ok", <<>>), snd).w
       ELSE w
  ELSE IF m.kind = "register_ack" THEN
    IF m.ack = "ok" THEN
      LET w1 == [w EXCEPT !.n.tunnelRegistered = TRUE, !.n.tunnelBackoffIndex = 0,
                          !.n.tunnelBackoffMs = kTunnelBackoffMs[1]]
          w2 == setState(w1, "TUNNEL_CONNECTED")
      IN [w2 EXCEPT !.n.lastTunnelPingMs = w2.t]
    ELSE registerAckError(w, m.reason)
  ELSE IF m.kind = "HTTP_REQ" THEN
    IF m.id = <<>> THEN w
    ELSE
      LET ledErr == IsLedPath(m.path) /\ cfg.ledPin < 0
          status == IF ledErr THEN 500 ELSE 200
          text   == IF ledErr THEN "LED pin not configured"
                    ELSE IF m.path = "/led/on" THEN "OK LED ON"
                    ELSE IF m.path = "/led/off" THEN "OK LED OFF" ELSE "OK"
          n      == kHttpResOverhead + Len(m.id)
                    + (IF ledErr THEN 22 ELSE IF m.path = "/led/on" THEN 9
                       ELSE IF m.path = "/led/off" THEN 10 ELSE 2)
      IN IF n > 0 /\ n < kHttpResBufSize
         THEN tunnelSendText(w, Frame("HTTP_RES", m.id, status, text, <<>>), snd).w
         ELSE IF kHttpErrOverhead + Len(m.id) < kHttpErrBufSize
              THEN tunnelSendText(w, Frame("HTTP_RES", m.id, 500,
                                           "Internal error: response buffer overflow", <<>>), snd).w
              ELSE w
  ELSE IF m.kind = "proxy_request" THEN tunnelHandleProxyRequest(w, m, h, snd)
  ELSE w

----------------------------------------------------------------------------
(* wsEvent: the static callback the WebSocket library calls from loop().   *)
(* ev: "connected", "disconnected", "error", "text", "other" (BIN / PING / *)
(* PONG), "none" (loop() had nothing to report).                           *)

WsEvents == {"none", "connected", "disconnected", "error", "text", "other"}

wsEvent(w, ev, m, h, snd) ==
  IF ~w.ws.nodeForWs THEN w
  ELSE IF ev = "connected" THEN tunnelSendRegister(w, snd)
  ELSE IF ev \in {"disconnected", "error"} THEN wsEventDown(w)
  ELSE IF ev = "text" THEN tunnelHandleMessage(w, m, h, snd)
  ELSE w

(* s_wsClient->loop(): the library updates its link state and reports one  *)
(* event through wsEvent while its own frame is on the stack.              *)
ClientLoop(w, ev, m, h, snd) ==
  IF ev = "none" THEN w
  ELSE LET conn == IF ev = "connected" THEN TRUE
                   ELSE IF ev \in {"disconnected", "error"} THEN FALSE
                   ELSE w.ws.connected
           w1 == [w EXCEPT !.ws.connected = conn, !.inLib = TRUE, !.inCb = TRUE]
           w2 == wsEvent(w1, ev, m, h, snd)
       IN [w2 EXCEPT !.inLib = FALSE, !.inCb = FALSE]

(* the events loop() can report given the link state *)
EventPossible(ev) ==
  /\ ev = "connected" => ~ws.connected
  /\ ev \in {"text", "other", "disconnected"} => ws.connected

tunnelLoop(w, in) ==
  IF w.ws.pending THEN
    LET had  == w.ws.client # "null"
        hadN == w.ws.nodeForWs
        w1   == [w EXCEPT !.ws.pending = FALSE, !.ws.client = "null", !.ws.nodeForWs = FALSE]
        w2   == IF had THEN DeleteClient(DisconnectClient(w1, in.discCb)) ELSE w1
    IN IF hadN THEN tunnelDisconnectCleanup(w2) ELSE w2
  ELSE IF ~cfg.enableTunnel THEN w
  ELSE IF w.n.tunnelUrl = "" THEN w
  ELSE IF w.n.nodeToken = "" /\ w.n.sessionToken = "" THEN w
  ELSE IF w.ws.client # "null" THEN
    LET w1 == ClientLoop(w, in.ev, in.m, cfg.httpRequestCb, in.snd)
    IN IF w1.ws.client = "null" THEN w1
       ELSE IF w1.ws.connected /\ w1.n.tunnelRegistered
               /\ w.t - w1.n.lastTunnelPingMs >= kTunnelPingIntervalMs
       THEN LET p == tunnelSendText(w1, Frame("ping", <<>>, 0, "", <<>>), in.snd2)
            IN IF p.res THEN [p.w EXCEPT !.n.lastTunnelPingMs = w.t] ELSE p.w
       ELSE w1
  ELSE IF w.t < w.n.nextTunnelConnectMs THEN w
  ELSE LET w1 == tunnelConnect(setState(w, "TUNNEL_CONNECTING"))
       IN [w1 EXCEPT !.n.nextTunnelConnectMs = w.t + w1.n.tunnelBackoffMs]

(* case State::ERROR with the backoff skipped *)
leaveErrorAtOnce(w) == setState([w EXCEPT !.n.nextHelloMs = w.t], "HELLO")

(* case State::ERROR *)
leaveError(w) == setState([w EXCEPT !.n.nextHelloMs = w.t + w.n.netBackoffMs], "HELLO")

(* in: the environment's part in one tick: r1..r3 the hub's replies to the *)
(* POSTs the tick may make, ev/m the WebSocket event and message,          *)
(* snd/snd2 the outcome of sendTXT, discCb see DisconnectClient (logged as *)
(* obs.late: an event was raised while the client was being disconnected). *)
runStateMachine(w, in) ==
  IF ~wifiUp THEN w
  ELSE IF w.n.state = "BOOT" THEN
    IF w.n.sessionToken # "" THEN
      LET rr == trySessionRefresh(w, in.r1)
      IN IF rr.res THEN rr.w
         ELSE LET w1 == setState(rr.w, "HELLO")
              IN [w1 EXCEPT !.n.nextHelloMs = w1.t + w1.n.netBackoffMs]
    ELSE LET w1 == setState(w, "HELLO")
         IN [w1 EXCEPT !.n.nextHelloMs = w1.t]
  ELSE IF w.n.state = "HELLO" THEN tryHello(w, in.r1)
  ELSE IF w.n.state = "PAIR_SUBMIT" THEN tryPairIfNeeded(w, in.r1)
  ELSE IF w.n.state = "PENDING_POLL" THEN
    LET w1 == IF cfg.preferRegisterBySlot /\ cfg.loginToken
              THEN tryRegisterBySlot(w, in.r1) ELSE w
        w2 == IF cfg.enableSelfApprove /\ cfg.approveEndpointPath
                 /\ w1.n.sessionToken = "" /\ ~w1.n.approveMissingMacFailed
              THEN tryApprove(w1, in.r2) ELSE w1
    IN IF w2.n.sessionToken = "" THEN trySessionPoll(w2, in.r3) ELSE w2
  ELSE IF w.n.state = "GRANTED" THEN setState(w, "ACTIVE")
  ELSE IF w.n.state \in {"ACTIVE", "TUNNEL_CONNECTING", "TUNNEL_CONNECTED"} THEN tunnelLoop(w, in)
  ELSE IF w.n.state = "ERROR" THEN leaveError(w)
  ELSE w

loopTick(w, in) == runStateMachine(w, in)

(* public API: setSessionToken *)
setSessionToken(w, tok) == [w EXCEPT !.n.sessionToken = tok]

----------------------------------------------------------------------------
(* The state machine: one action per operation the host or the environment *)
(* performs between two returns to the sketch's loop().                    *)

ElapseSteps == {2000}

SmallId == <<97>>

TunnelMsgs ==
  { Msg("register_ack", <<>>, "GET", "/", "ok", "", 0),
    Msg("register_ack", <<>>, "GET", "/", "error", "MISSING_AUTH_TOKEN", 0),
    Msg("register_ack", <<>>, "GET", "/", "error", "SLOT_ID_MISMATCH", 0),
    Msg("register_ack", <<>>, "GET", "/", "error", "SESSION_TOKEN_MISSING_SLOT_ID", 0),
    Msg("register_ack", <<>>, "GET", "/", "error", "", 0),
    Msg("rpc", SmallId, "GET", "/ping", "", "", 0),
    Msg("HTTP_REQ", SmallId, "GET", "/ping", "", "", 0),
    Msg("proxy_request", SmallId, "GET", "/ping", "", "", 0),
    Msg("badjson", <<>>, "GET", "/", "", "", 0) }

DefaultIn ==
  [r1 |-> TransportFail, r2 |-> TransportFail, r3 |-> TransportFail,
   ev |-> "none", m |-> NoMsg, snd |-> "ok", snd2 |-> "ok",
   discCb |-> FALSE]

SendOutcomes == {"ok", "fail", "failDisc"}

IsSessionAuthFail(q) ==
  q.ep \in {"session", "session_refresh", "approve"} /\ q.ok /\ IsAuthFail(q.status)

IsHelloRefusal(q) == q.ep = "hello" /\ q.ok /\ IsAuthFail(q.status)

IdleObs ==
  [op |-> "idle", reqs |-> <<>>, frames |-> <<>>, cbs |-> <<>>, m |-> NoMsg,
   late |-> FALSE]

InitHist ==
  [uaf |-> FALSE, freedInCb |-> FALSE, authFail |-> FALSE, helloNotBefore |-> -1,
   apiCalls |-> 0, helloRefusals |-> 0, tunnelCb |-> "none",
   pre |-> [net |-> kBackoffMinMs, pair |-> kBackoffMinMs, tunnel |-> 0,
            code |-> FALSE, tunnelCb |-> "none"]]

Init ==
  /\ cfg \in Configs
  /\ node = InitNode
  /\ ws = InitWs
  /\ now = 0
  /\ wifiUp \in BOOLEAN
  /\ obs = IdleObs
  /\ hist = InitHist

(* the calls of the tunnel-change observer among cbs: "up" / "down" *)
TunnelCalls(cbs) ==
  LET t == SelectSeq(cbs, LAMBDA c : c.cb = "tunnel")
  IN [i \in 1..Len(t) |-> t[i].a]

(* what an operation leaves behind: the node, the globals and the record   *)
(* of what it did; hist.pre is the part of the node it started from,       *)
(* hist.helloRefusals counts the hello answers 401/403/410 in a row (0..2),*)
(* hist.tunnelCb is the last call of the tunnel-change observer so far     *)
Commit(op, w, in) ==
  /\ node' = w.n
  /\ ws' = w.ws
  /\ now' = w.t
  /\ obs' = [op |-> op, reqs |-> w.reqs, frames |-> w.frames, cbs |-> w.cbs,
             m |-> in.m, late |-> in.discCb]
  /\ hist' = [uaf |-> w.uaf, freedInCb |-> w.freedInCb,
              authFail |-> IF w.reqs = <<>> THEN hist.authFail
                           ELSE IsSessionAuthFail(w.reqs[Len(w.reqs)]),
              helloNotBefore |->
                IF node.state = "ERROR" /\ w.n.state = "HELLO" THEN now + node.netBackoffMs
                ELSE IF \E i \in 1..Len(w.reqs) : w.reqs[i].ep = "hello" THEN -1
                ELSE hist.helloNotBefore,
              apiCalls |-> IF op = "tick" THEN hist.apiCalls ELSE hist.apiCalls + 1,
              helloRefusals |->
                IF \E i \in 1..Len(w.reqs) : IsHelloRefusal(w.reqs[i])
                THEN Min(hist.helloRefusals + 1, 2)
                ELSE IF \E i \in 1..Len(w.reqs) : w.reqs[i].ep = "hello" THEN 0
                ELSE hist.helloRefusals,
              tunnelCb |-> IF TunnelCalls(w.cbs) = <<>> THEN hist.tunnelCb
                           ELSE TunnelCalls(w.cbs)[Len(TunnelCalls(w.cbs))],
              pre |-> [net |-> node.netBackoffMs, pair |-> node.pairBackoffMs,
                       tunnel |-> node.tunnelBackoffIndex,
                       code |-> node.pairingCodeValid,
                       tunnelCb |-> hist.tunnelCb]]
  /\ UNCHANGED <<cfg, wifiUp>>

Tick(in) == \E w \in {loopTick(World, in)} : Commit("tick", w, in)

TickLinkDown ==
  /\ ~wifiUp
  /\ Tick(DefaultIn)

(* the replies worth drawing: a reply is read only when its POST is due *)
RepliesIf(due, S) == IF due THEN S ELSE {TransportFail}

TickBoot ==
  /\ wifiUp /\ node.state = "BOOT"
  /\ \E r \in RepliesIf(node.sessionToken # "", SessionReplies) :
       Tick([DefaultIn EXCEPT !.r1 = r])

TickHello ==
  /\ wifiUp /\ node.state = "HELLO"
  /\ \E r \in RepliesIf(now >= node.nextHelloMs, HelloReplies) :
       Tick([DefaultIn EXCEPT !.r1 = r])

TickPairSubmit ==
  /\ wifiUp /\ node.state = "PAIR_SUBMIT"
  /\ \E r \in RepliesIf(now >= node.nextPairMs, PairReplies) :
       Tick([DefaultIn EXCEPT !.r1 = r])

TickPendingPoll ==
  /\ wifiUp /\ node.state = "PENDING_POLL"
  /\ \E r1 \in RepliesIf(cfg.preferRegisterBySlot /\ now >= node.nextRegisterBySlotMs,
                         RegisterReplies),
        r2 \in RepliesIf(cfg.enableSelfApprove /\ now >= node.nextApproveMs
                           /\ node.pairingCodeValid, ApproveReplies),
        r3 \in RepliesIf(now >= node.nextSessionPollMs, SessionReplies) :
       Tick([DefaultIn EXCEPT !.r1 = r1, !.r2 = r2, !.r3 = r3])

(* the outcomes of sendTXT worth drawing: only when a frame is to be sent *)
SendsIf(c) == IF c THEN SendOutcomes ELSE {"ok"}

(* tunnelLoop gets as far as s_wsClient->loop(): only then is an event or  *)
(* a frame taken from the socket                                           *)
ClientLoopRuns ==
  /\ ws.client # "null" /\ ~ws.pending /\ ws.nodeForWs
  /\ cfg.enableTunnel /\ node.tunnelUrl # ""
  /\ ~(node.nodeToken = "" /\ node.sessionToken = "")

TickTunnel ==
  /\ wifiUp /\ node.state \in {"ACTIVE", "TUNNEL_CONNECTING", "TUNNEL_CONNECTED"}
  /\ \E ev \in IF ClientLoopRuns THEN WsEvents ELSE {"none"} :
       /\ EventPossible(ev)
       /\ \E m \in IF ev = "text" THEN TunnelMsgs ELSE {NoMsg},
             snd \in SendsIf(ev = "connected" \/ ev = "text"),
             snd2 \in SendsIf(node.tunnelRegistered
                              /\ now - node.lastTunnelPingMs >= kTunnelPingIntervalMs),
             d \in IF ws.pending /\ ws.client # "null" THEN BOOLEAN ELSE {FALSE} :
            Tick([DefaultIn EXCEPT !.ev = ev, !.m = m, !.snd = snd, !.snd2 = snd2,
                                   !.discCb = d])

TickError ==
  /\ wifiUp /\ node.state = "ERROR"
  /\ Tick(DefaultIn)

(* the clock advances between two operations *)
Elapse ==
  /\ \E d \in ElapseSteps : now + d <= MaxNow /\ now' = now + d
  /\ obs' = IdleObs
  /\ UNCHANGED <<cfg, node, ws, wifiUp, hist>>

(* the access point comes or goes *)
WiFiChange ==
  /\ wifiUp' = ~wifiUp
  /\ obs' = IdleObs
  /\ UNCHANGED <<cfg, node, ws, now, hist>>

(* the sketch calls setSessionToken (restoring a persisted token, or       *)
(* clearing it)                                                            *)
SetSessionToken ==
  \E tok \in {"", "tok"} :
    /\ hist.apiCalls < MaxApiCalls
    /\ tok # node.sessionToken
    /\ \E w \in {setSessionToken(World, tok)} : Commit("setSessionToken", w, DefaultIn)

(* the sketch calls tunnelDisconnect *)
TunnelDisconnect ==
  /\ hist.apiCalls < MaxApiCalls
  /\ \E d \in IF ws.client # "null" THEN BOOLEAN ELSE {FALSE} :
       \E w \in {tunnelDisconnect(World, d)} :
         Commit("tunnelDisconnect", w, [DefaultIn EXCEPT !.discCb = d])

Next ==
  \/ TickLinkDown
  \/ TickBoot
  \/ TickHello
  \/ TickPairSubmit
  \/ TickPendingPoll
  \/ TickTunnel
  \/ TickError
  \/ Elapse
  \/ WiFiChange
  \/ SetSessionToken
  \/ TunnelDisconnect

Spec == Init /\ [][Next]_vars

(* The sketch calls loopTick() from loop() for ever; whenever ticks keep    *)
(* finding the link up while the node is in ERROR, one of them runs the    *)
(* ERROR case.                                                             *)
SpecFair == Spec /\ SF_vars(TickError)

----------------------------------------------------------------------------
(* The tunnel phase.  Once the node is ACTIVE no code path leaves the      *)
(* three tunnel states, so the tunnel is explored from the state the node  *)
(* is in when it first becomes ACTIVE with a session token: construction,  *)
(* the BOOT tick, a hello answered PENDING with a pairing code, 2000 ms,   *)
(* and an approve answered with a session token.                           *)

TunnelElapseSteps == {4000, 25000}

EntryNode ==
  [InitNode EXCEPT !.state = "ACTIVE",
                   !.nextHelloMs = kDefaultRetryAfterMs,
                   !.nextPairMs = kAfterHelloDelayMs,
                   !.nextApproveMs = kAfterHelloDelayMs,
                   !.nextSessionPollMs = 2000 + kSessionCadenceMs,
                   !.nodeId = "n1", !.tunnelUrl = "wss", !.sessionToken = "tok",
                   !.pairingCode = "ABC", !.pairingCodeValid = TRUE]

(* The same path with the approve answered by a node token and a          *)
(* tunnel_url but no session token.                                        *)
EntryNodeNoSession ==
  [EntryNode EXCEPT !.sessionToken = "", !.nodeToken = "ntok"]

InitTunnel ==
  /\ cfg = TunnelConfig
  /\ wifiUp = TRUE
  /\ now = 2000
  /\ node \in {EntryNode, EntryNodeNoSession}
  /\ ws = InitWs
  /\ obs = IdleObs
  /\ hist = InitHist

ElapseTunnel ==
  /\ \E d \in TunnelElapseSteps : now + d <= MaxNowTunnel /\ now' = now + d
  /\ obs' = IdleObs
  /\ UNCHANGED <<cfg, node, ws, wifiUp, hist>>

NextTunnel ==
  \/ TickLinkDown
  \/ TickTunnel
  \/ ElapseTunnel
  \/ WiFiChange
  \/ SetSessionToken
  \/ TunnelDisconnect

SpecTunnel == InitTunnel /\ [][NextTunnel]_vars

(* The sketch's loop() calls loopTick() forever and the clock advances: a  *)
(* tunnel tick or a step of the clock that stays possible is taken.        *)
SpecTunnelFair == SpecTunnel /\ WF_vars(TickTunnel) /\ WF_vars(ElapseTunnel)

(* Both phases side by side, for what holds of the three backoff counters: *)
(* the control plane from construction, the tunnel from its entry state.   *)
InitCounters == Init \/ InitTunnel

NextCounters ==
  \/ TickLinkDown
  \/ TickBoot
  \/ TickHello
  \/ TickPairSubmit
  \/ TickPendingPoll
  \/ TickTunnel
  \/ TickError
  \/ ~cfg.enableTunnel /\ Elapse
  \/ cfg.enableTunnel /\ ElapseTunnel
  \/ WiFiChange
  \/ SetSessionToken
  \/ TunnelDisconnect

SpecCounters == InitCounters /\ [][NextCounters]_vars

----------------------------------------------------------------------------
(* Inbound requests.  The node is in the state it has once the tunnel is   *)
(* registered (the entry state, a tick that connects, the Connected event, *)
(* register_ack ok); each step is a tick whose loop() delivers one TEXT    *)
(* frame drawn from a wide set of ids, paths, bodies and user handlers.    *)

IdOfLen(n) == [i \in 1..n |-> 97 + (i % 26)]

IdLens == {0, 1, kRequestIdSize - 1, kRequestIdSize, MaxIdLen}

Paths == {"/ping", "/api/ping", "/status", "/api/status", "/nope", "/led/on", "/led/off"}

Methods == {"GET", "POST"}

ProxyBodyLens == {0, 4092, 4093, 4097}

Handlers ==
  { NoHandler,
    [registered |-> TRUE, status |-> 200, body |-> <<>>, endCalls |-> 0],
    [registered |-> TRUE, status |-> 404, body |-> <<104, 105>>, endCalls |-> 0],
    [registered |-> TRUE, status |-> 404, body |-> <<104, 105>>, endCalls |-> 1],
    [registered |-> TRUE, status |-> 404, body |-> <<104, 105>>, endCalls |-> 2] }

ConnectedNode ==
  [EntryNode EXCEPT !.state = "TUNNEL_CONNECTED",
                    !.nextTunnelConnectMs = 2000 + kTunnelBackoffMs[1],
                    !.tunnelRegistered = TRUE,
                    !.lastTunnelPingMs = 2000]

ConnectedWs == [client |-> "alloc", nodeForWs |-> TRUE, pending |-> FALSE, connected |-> TRUE]

InitMsg ==
  /\ cfg \in { [TunnelConfig EXCEPT !.ledPin = pin, !.httpRequestCb = h] :
                 pin \in {-1, 2}, h \in Handlers }
  /\ wifiUp = TRUE
  /\ now = 2000
  /\ node = ConnectedNode
  /\ ws = ConnectedWs
  /\ obs = IdleObs
  /\ hist = InitHist

CanDeliver ==
  /\ wifiUp /\ node.state = "TUNNEL_CONNECTED"
  /\ ws.client # "null" /\ ws.connected /\ ~ws.pending

DeliverRpc ==
  /\ CanDeliver
  /\ \E n \in {1, MaxIdLen}, p \in Paths, me \in Methods, snd \in SendOutcomes :
       Tick([DefaultIn EXCEPT !.ev = "text", !.snd = snd,
                              !.m = Msg("rpc", IdOfLen(n), me, p, "", "", 0)])

DeliverHttpReq ==
  /\ CanDeliver
  /\ \E n \in {0, 1, MaxIdLen}, p \in Paths, me \in Methods, snd \in SendOutcomes :
       Tick([DefaultIn EXCEPT !.ev = "text", !.snd = snd,
                              !.m = Msg("HTTP_REQ", IdOfLen(n), me, p, "", "", 0)])

DeliverProxyRequest ==
  /\ CanDeliver
  /\ \E n \in IdLens, p \in {"/ping", "/led/on"}, bl \in ProxyBodyLens,
        snd \in SendOutcomes :
       Tick([DefaultIn EXCEPT !.ev = "text", !.snd = snd,
                              !.m = Msg("proxy_request", IdOfLen(n), "POST", p, "", "", bl)])

NextMsg ==
  \/ DeliverRpc
  \/ DeliverHttpReq
  \/ DeliverProxyRequest

SpecMsg == InitMsg /\ [][NextMsg]_vars

----------------------------------------------------------------------------
(* Properties of the control plane (specification Spec)                    *)

SentIn(o, ep) == \E i \in 1..Len(o.reqs) : o.reqs[i].ep = ep

(* C1: in every single call to loopTick the node sends at most one         *)
(* control-plane HTTP request, in every state and whichever actions are    *)
(* due.                                                                    *)
C1_AtMostOneRequestPerTick == Len(obs.reqs) <= 1

(* a tick that made exactly one request *)
C1_OneRequestTick == obs.op = "tick" /\ Len(obs.reqs) = 1

(* C2: after a 401/403/410 answer on a session-bearing endpoint (session   *)
(* poll, session refresh, approve) session_token is empty and the next     *)
(* control request the node sends is the hello, nothing in between.        *)
C2_HelloFollowsAuthFailure ==
  [][ obs'.op = "tick" =>
        /\ (hist.authFail /\ obs'.reqs # <<>>) => obs'.reqs[1].ep = "hello"
        /\ \A i \in 1..Len(obs'.reqs) :
             IsSessionAuthFail(obs'.reqs[i]) =>
               /\ i < Len(obs'.reqs) => obs'.reqs[i + 1].ep = "hello"
               /\ i = Len(obs'.reqs) => node'.sessionToken = "" ]_vars

(* an auth failure on a session-bearing endpoint was the tick's last answer *)
C2_AuthFailureSeen == obs.op = "tick" /\ hist.authFail /\ node.sessionToken = ""

(* C3: whenever a tick has returned (here: one that found the link up and   *)
(* ran the state machine), a non-empty session_token implies the state is  *)
(* GRANTED, ACTIVE, TUNNEL_CONNECTING or TUNNEL_CONNECTED.                 *)
C3_TokenImpliesAuthedState ==
  (obs.op = "tick" /\ wifiUp /\ node.sessionToken # "") => node.state \in AuthedStates

(* a tick returned with a session token in an authenticated state *)
C3_TokenInActive == obs.op = "tick" /\ node.sessionToken # "" /\ node.state = "ACTIVE"

(* C9: a node constructed without a hub URL or without a slot id is in     *)
(* ERROR, stays there for its whole lifetime, and never attempts a control *)
(* HTTP request.                                                           *)
C9_ConfigFatalIsSticky ==
  (~cfg.hubBaseUrl \/ ~cfg.slotId) => (node.state = "ERROR" /\ obs.reqs = <<>>)

(* a node without a slot id that has sent a hello *)
C9_HelloWithoutSlot == ~cfg.slotId /\ SentIn(obs, "hello")

(* C10: once in ERROR after a hub DENIED the machine always re-enters      *)
(* HELLO, given ticks with the link up, and no hello is sent before the    *)
(* net backoff current when ERROR was left has elapsed since then.         *)
C10_ErrorRecoversAfterBackoff ==
  /\ [][ (obs'.op = "tick" /\ SentIn(obs', "hello") /\ hist.helloNotBefore >= 0)
           => now >= hist.helloNotBefore ]_vars
  /\ (<>[](~wifiUp) \/ [](node.state = "ERROR" => <>(node.state = "HELLO")))

(* ERROR was left, the backoff has elapsed and the hello is due *)
C10_BackoffElapsed ==
  /\ node.state = "HELLO" /\ hist.helloNotBefore >= 0
  /\ now >= hist.helloNotBefore /\ now >= node.nextHelloMs /\ wifiUp

----------------------------------------------------------------------------
(* Properties of the tunnel (specification SpecTunnel)                     *)

TunnelDownEmitted(o) == \E i \in 1..Len(o.cbs) : o.cbs[i].cb = "tunnel" /\ o.cbs[i].a = "down"

(* C4: the WebSocket client is destroyed only from the main-loop path; the *)
(* event callback never frees it, so no method of the client resumes on a  *)
(* freed object even when the callback is entered from inside loop() or a  *)
(* send.                                                                   *)
C4_ClientFreedOnlyFromMainLoop == ~hist.uaf /\ ~hist.freedInCb

(* a tick tore the client down after the callback had set the flag *)
C4_DeferredTeardownDone ==
  /\ obs.op = "tick" /\ TunnelDownEmitted(obs)
  /\ ws.client = "null" /\ ~ws.pending

(* C5: after a Disconnected or Error event has set the pending flag, the   *)
(* very next tick destroys the client, clears the flag, emits tunnel-down, *)
(* moves TUNNEL_CONNECTING / TUNNEL_CONNECTED back to ACTIVE and schedules *)
(* the reconnect at now plus the tunnel backoff.                           *)
C5_NextTickTearsDown ==
  [][ (ws.pending /\ obs'.op = "tick") =>
        /\ ws'.client = "null" /\ ~ws'.pending
        /\ TunnelDownEmitted(obs')
        /\ node'.state \notin {"TUNNEL_CONNECTING", "TUNNEL_CONNECTED"}
        /\ node'.nextTunnelConnectMs = now + node'.tunnelBackoffMs ]_vars

(* a tick returned with the flag still set and the client still allocated *)
C5_TeardownSkipped == obs.op = "tick" /\ ws.pending /\ ws.client # "null"

----------------------------------------------------------------------------
(* Properties of the inbound request handling (specification SpecMsg)      *)

ResponseTypes == {"HTTP_RES", "rpc_response", "proxy_response"}

BuiltInOkPaths == {"/ping", "/api/ping", "/status", "/api/status"}

(* C6: every response frame the node sends carries the correlation id of   *)
(* the request it answers, byte for byte, whatever the id's length.        *)
C6_ResponseEchoesId ==
  \A i \in 1..Len(obs.frames) :
    obs.frames[i].type \in ResponseTypes => obs.frames[i].id = obs.m.id

(* a response to a request whose id is longer than the writer's buffer *)
C6_LongIdAnswered ==
  /\ obs.m.kind = "proxy_request" /\ Len(obs.m.id) >= kRequestIdSize
  /\ Len(obs.frames) = 1 /\ obs.frames[1].type = "proxy_response"

(* C7: a proxy_request whose body has decoded length <= 4096 produces a    *)
(* proxy_response with the request's request_id, the status code the user  *)
(* handler set, and the base64 encoding of the bytes the handler wrote.    *)
C7_ProxyRoundTrip ==
  ( /\ obs.op = "tick" /\ obs.m.kind = "proxy_request"
    /\ obs.m.bodyLen <= kDefaultMaxTunnelBody
    /\ cfg.httpRequestCb.registered
    /\ obs.frames # <<>> )
  => /\ Len(obs.frames) = 1
     /\ obs.frames[1].type = "proxy_response"
     /\ obs.frames[1].id = obs.m.id
     /\ obs.frames[1].status = cfg.httpRequestCb.status
     /\ obs.frames[1].b64 = base64Encode(cfg.httpRequestCb.body)

(* a proxy_request answered while a user handler that sets 404 is registered *)
C7_HandlerRegisteredAnswered ==
  /\ obs.m.kind = "proxy_request" /\ obs.m.bodyLen = 0 /\ Len(obs.m.id) = 1
  /\ cfg.httpRequestCb.registered /\ cfg.httpRequestCb.status = 404
  /\ Len(obs.frames) = 1 /\ obs.frames[1].type = "proxy_response"

(* C8: an HTTP_REQ or RPC envelope with a non-empty id reaches the user    *)
(* handler; with none registered the built-in routes answer: GET /ping,    *)
(* /api/ping, /status, /api/status give 200, every other method or path    *)
(* gives 404.                                                              *)
C8_BuiltInRoutes ==
  ( /\ obs.op = "tick" /\ obs.m.kind \in {"HTTP_REQ", "rpc"}
    /\ obs.m.id # <<>>
    /\ ~cfg.httpRequestCb.registered
    /\ obs.frames # <<>> )
  => /\ Len(obs.frames) = 1
     /\ obs.frames[1].status =
          IF obs.m.method = "GET" /\ obs.m.path \in BuiltInOkPaths THEN 200 ELSE 404

(* an HTTP_REQ for an unknown path was answered *)
C8_UnknownPathAnswered ==
  /\ obs.m.kind = "HTTP_REQ" /\ obs.m.path = "/nope" /\ obs.m.id # <<>>
  /\ Len(obs.frames) = 1 /\ obs.frames[1].type = "HTTP_RES"

----------------------------------------------------------------------------
(* Observers (specification Spec)                                          *)

StateCbs(o) == SelectSeq(o.cbs, LAMBDA c : c.cb = "state")

(* C11: the state-change observer is invoked exactly once for each         *)
(* transition between two distinct states (the calls of one operation      *)
(* chain from the state before it to the state after it, none with equal   *)
(* ends), and a set_state call with the current state changes nothing and  *)
(* invokes no observer.                                                    *)
C11_StateObserverOncePerTransition ==
  [][ LET s == StateCbs(obs')
      IN /\ \A i \in 1..Len(s) : s[i].a # s[i].b
         /\ \A i \in 1..(Len(s) - 1) : s[i].b = s[i + 1].a
         /\ s = <<>> => node'.state = node.state
         /\ s # <<>> => (s[1].a = node.state /\ s[Len(s)].b = node'.state) ]_vars

(* a hello answered 403 in HELLO: setState(HELLO) ran and no observer fired *)
C11_RedundantSetState ==
  /\ obs.op = "tick" /\ node.state = "HELLO"
  /\ Len(obs.reqs) = 1 /\ obs.reqs[1].ep = "hello" /\ obs.reqs[1].status = 403
  /\ StateCbs(obs) = <<>>

----------------------------------------------------------------------------
(* Recovery of the session token in the tunnel phase (SpecTunnelFair)      *)

(* a tick in which register_ack was refused with MISSING_AUTH_TOKEN: the    *)
(* token is cleared and the approve rescheduled at once                    *)
MissingAuthTokenRefused ==
  /\ obs.op = "tick" /\ obs.m.kind = "register_ack" /\ obs.m.reason = "MISSING_AUTH_TOKEN"
  /\ node.sessionToken = "" /\ node.nextApproveMs = 0
  /\ node.state \in {"ACTIVE", "TUNNEL_CONNECTING", "TUNNEL_CONNECTED"}

(* C20: whenever the session token is empty while the node is ACTIVE,      *)
(* TUNNEL_CONNECTING or TUNNEL_CONNECTED (here: after a MISSING_AUTH_TOKEN *)
(* refusal), then with the link staying up and ticks continuing the        *)
(* rescheduled approve request is eventually sent and the tunnel           *)
(* eventually reaches TUNNEL_CONNECTED.                                    *)
C20_ApproveResentAfterTokenLoss ==
  \/ <>(~wifiUp)
  \/ [](MissingAuthTokenRefused
          => (<>SentIn(obs, "approve") /\ <>(node.state = "TUNNEL_CONNECTED" /\
                                             node.sessionToken # "")))

(* the refusal happened with the link up *)
C20_TokenLostInTunnelPhase == MissingAuthTokenRefused /\ wifiUp

----------------------------------------------------------------------------
(* The earlier variant of OrbiSyncNode.cpp (states BOOT, HELLO,            *)
(* PENDING_POLL, ACTIVE, ERROR; heartbeat and command polling; last_error_ *)
(* with an edge-triggered error callback).  The same variables hold its    *)
(* state: node its fields, cfg its Config.  Node registration and the      *)
(* tunnel are switched off in the configurations drawn, so processActive   *)
(* is the heartbeat and the command pull.  Error messages are written in   *)
(* English, one string per message of the source.                          *)

kInitialBackoffMs == 1000
kMaxBackoffMs == 30000
kDefaultPendingRetryMs == 3000
kDefaultTtlSeconds == 3600

MaxNowV1 == 4000          \* the clock stops advancing here

MkCfgV1(hub, polling) ==
  [hubBaseUrl |-> hub, slotId |-> TRUE, enableTunnel |-> FALSE,
   enableNodeRegistration |-> FALSE, enableCommandPolling |-> polling,
   heartbeatIntervalMs |-> 2000, commandPollIntervalMs |-> 0]

ConfigsV1 == { MkCfgV1(TRUE, TRUE), MkCfgV1(TRUE, FALSE), MkCfgV1(FALSE, FALSE) }

(* setLastError *)
setLastError(w, msg) ==
  IF w.n.last_error # msg
  THEN Emit([w EXCEPT !.n.last_error = msg], "error", w.n.last_error, msg)
  ELSE w

transitionTo(w, s) ==
  IF w.n.state # s
  THEN Emit([w EXCEPT !.n.state = s], "state", w.n.state, s)
  ELSE w

clearSession(w) == [w EXCEPT !.n.session_token = "", !.n.session_expires_at_ms = 0]

isSessionValid(w) ==
  IF w.n.session_token = "" THEN FALSE
  ELSE IF w.n.session_expires_at_ms = 0 THEN TRUE
  ELSE w.t < w.n.session_expires_at_ms

scheduleNextNetwork(w, delayMs) ==
  [w EXCEPT !.n.next_net_action_ms = w.t + (IF delayMs # 0 THEN delayMs ELSE w.n.net_backoff_ms),
            !.n.net_backoff_ms = Min(w.n.net_backoff_ms * 2, kMaxBackoffMs)]

scheduleNextWiFi(w, delayMs) ==
  [w EXCEPT !.n.next_wifi_action_ms = w.t + (IF delayMs # 0 THEN delayMs ELSE w.n.wifi_backoff_ms),
            !.n.wifi_backoff_ms = Min(w.n.wifi_backoff_ms * 2, kMaxBackoffMs)]

ensureWiFi(w) ==
  IF wifiUp THEN [w EXCEPT !.n.wifi_backoff_ms = kInitialBackoffMs]
  ELSE IF w.t < w.n.next_wifi_action_ms THEN w
  ELSE IF ~w.n.wifi_credentials
       THEN scheduleNextWiFi(setLastError(w, "wifi credentials missing"), kInitialBackoffMs)
       ELSE scheduleNextWiFi(w, 0)

(* A hub reply to one POST of this variant.  begin: http_.begin succeeds;  *)
(* code: http_code (-1: the POST failed); parse: what reading the body as  *)
(* JSON gives ("ok", "badjson", "toolarge", "nostream"); status / token /  *)
(* ttl: the fields read (ttl -1: ttl_seconds absent); cmds: the commands   *)
(* array, each command with valid (id and action present) and the code of  *)
(* its ack POST; ms: how long the blocking POST took.                      *)
ReplyV1(begin, code, parse, status, token, ttl) ==
  [begin |-> begin, code |-> code, parse |-> parse, status |-> status,
   token |-> token, ttl |-> ttl, cmds |-> <<>>, ms |-> 0]

NoReplyV1 == ReplyV1(TRUE, -1, "nostream", "", "null", -1)

BeginFailV1 == ReplyV1(FALSE, 0, "nostream", "", "null", -1)

HelloRepliesV1 ==
  { NoReplyV1, BeginFailV1,
    ReplyV1(TRUE, 200, "badjson", "", "null", -1),
    ReplyV1(TRUE, 500, "ok", "", "null", -1),
    ReplyV1(TRUE, 200, "ok", "", "null", -1),
    ReplyV1(TRUE, 200, "ok", "PENDING", "null", -1),
    ReplyV1(TRUE, 200, "ok", "DENIED", "null", -1),
    ReplyV1(TRUE, 200, "ok", "OTHER", "null", -1) }

SessionRepliesV1 ==
  { NoReplyV1,
    ReplyV1(TRUE, 200, "badjson", "", "null", -1),
    ReplyV1(TRUE, 200, "ok", "PENDING", "null", -1),
    ReplyV1(TRUE, 200, "ok", "DENIED", "null", -1),
    ReplyV1(TRUE, 200, "ok", "GRANTED", "null", -1),
    ReplyV1(TRUE, 200, "ok", "GRANTED", "", -1),
    ReplyV1(TRUE, 200, "ok", "GRANTED", "tok", -1),
    ReplyV1(TRUE, 200, "ok", "GRANTED", "tok", 1) }

HeartbeatRepliesV1 ==
  { NoReplyV1, BeginFailV1,
    ReplyV1(TRUE, 200, "ok", "", "null", -1),
    ReplyV1(TRUE, 200, "ok", "", "null", 1),
    [ReplyV1(TRUE, 200, "ok", "", "null", -1) EXCEPT !.ms = 1000],
    ReplyV1(TRUE, 200, "toolarge", "", "null", -1),
    ReplyV1(TRUE, 500, "ok", "", "null", -1) } \cup
  { ReplyV1(TRUE, c, p, "", "null", -1) : c \in {401, 403}, p \in {"ok", "badjson"} }

PullRepliesV1 ==
  { NoReplyV1,
    ReplyV1(TRUE, 500, "ok", "", "null", -1),
    ReplyV1(TRUE, 200, "ok", "", "null", -1) } \cup
  { [ReplyV1(TRUE, 200, "ok", "commands", "null", -1) EXCEPT !.cmds = c] :
      c \in { <<[valid |-> TRUE, ack |-> 200]>>, <<[valid |-> TRUE, ack |-> 500]>>,
              <<[valid |-> FALSE, ack |-> 200]>>,
              <<[valid |-> TRUE, ack |-> 500], [valid |-> TRUE, ack |-> 200]>>,
              <<[valid |-> TRUE, ack |-> 200], [valid |-> TRUE, ack |-> -1]>> } }

(* the POST of one request: it is logged with the bearer token it carries  *)
(* and with whether the session is valid as it leaves                      *)
PostV1(w, ep, r) ==
  [w EXCEPT !.reqs = Append(@, [ep |-> ep, ok |-> r.code > 0, status |-> r.code,
                                token |-> w.n.session_token,
                                valid |-> isSessionValid(w),
                                cmds |-> IF "cmds" \in DOMAIN r THEN r.cmds ELSE <<>>]),
            !.t = @ + r.ms]

responseToJson(w, r) ==
  IF r.parse = "ok" THEN [w |-> w, res |-> TRUE]
  ELSE IF r.parse = "toolarge" THEN [w |-> setLastError(w, "response too large"), res |-> FALSE]
  ELSE IF r.parse = "nostream" THEN [w |-> setLastError(w, "no response stream"), res |-> FALSE]
  ELSE [w |-> setLastError(w, "JSON parse failed"), res |-> FALSE]

sendHello(w, r) ==
  IF w.n.state = "ERROR" THEN w
  ELSE IF ~wifiUp THEN scheduleNextNetwork(setLastError(w, "HELLO: no Wi-Fi"), 0)
  ELSE IF ~r.begin THEN scheduleNextNetwork(setLastError(w, "HELLO: HTTP connect failed"), 0)
  ELSE
    LET w1 == PostV1(w, "hello", r)
    IN IF r.code <= 0 THEN scheduleNextNetwork(setLastError(w1, "HELLO: network failure"), 0)
       ELSE IF r.parse # "ok"
         THEN scheduleNextNetwork(setLastError(w1, "HELLO: JSON parse failed"), 0)
       ELSE IF ~Is2xx(r.code) THEN scheduleNextNetwork(setLastError(w1, "HELLO: HTTP error"), 0)
       ELSE IF r.status = "" THEN scheduleNextNetwork(setLastError(w1, "HELLO: status missing"), 0)
       ELSE IF r.status = "PENDING" THEN
         LET w2 == transitionTo(w1, "PENDING_POLL")
         IN [w2 EXCEPT !.n.next_net_action_ms = w2.t + kDefaultPendingRetryMs,
                       !.n.net_backoff_ms = kInitialBackoffMs,
                       !.n.last_error = ""]
       ELSE IF r.status = "DENIED" THEN
         scheduleNextNetwork(
           transitionTo(clearSession(setLastError(w1, "HELLO: denied")), "HELLO"), 0)
       ELSE scheduleNextNetwork(setLastError(w1, "HELLO: unknown status"), 0)

pollSession(w, r) ==
  IF ~wifiUp THEN scheduleNextNetwork(setLastError(w, "SESSION: no Wi-Fi"), 0)
  ELSE IF ~r.begin THEN scheduleNextNetwork(setLastError(w, "SESSION: HTTP begin failed"), 0)
  ELSE
    LET w1 == PostV1(w, "session", r)
    IN IF r.code <= 0 \/ r.parse # "ok" \/ r.status = "" THEN scheduleNextNetwork(w1, 0)
       ELSE IF r.status = "PENDING" THEN
         [transitionTo(w1, "PENDING_POLL") EXCEPT
            !.n.next_net_action_ms = w.t + kDefaultPendingRetryMs]
       ELSE IF r.status = "GRANTED" THEN
         IF r.token = "null" THEN scheduleNextNetwork(w1, 0)
         ELSE
           LET ttl == IF r.ttl < 0 THEN kDefaultTtlSeconds ELSE r.ttl
               w2 == [w1 EXCEPT !.n.session_token = r.token,
                                !.n.session_expires_at_ms = w.t + ttl * 1000]
               w3 == transitionTo(w2, "ACTIVE")
           IN [w3 EXCEPT !.n.last_heartbeat_ms = w.t, !.n.next_net_action_ms = w.t]
       ELSE IF r.status = "DENIED" THEN
         scheduleNextNetwork(transitionTo(clearSession(w1), "HELLO"), 0)
       ELSE scheduleNextNetwork(w1, 0)

(* sendHeartbeat without its first check *)
sendHeartbeatBody(w, r) ==
  IF ~wifiUp THEN setLastError(w, "heartbeat: no Wi-Fi")
  ELSE IF ~r.begin THEN scheduleNextNetwork(setLastError(w, "heartbeat: HTTP begin failed"), 0)
  ELSE
    LET w1 == PostV1(w, "heartbeat", r)
        rj == responseToJson(w1, r)
    IN IF ~rj.res THEN scheduleNextNetwork(rj.w, 0)
       ELSE IF r.code = 401 \/ r.code = 403 THEN
         scheduleNextNetwork(
           transitionTo(clearSession(setLastError(w1, "heartbeat: auth failed")), "HELLO"), 0)
       ELSE IF ~Is2xx(r.code)
         THEN scheduleNextNetwork(setLastError(w1, "heartbeat: HTTP error"), 0)
       ELSE
         [w1 EXCEPT !.n.session_expires_at_ms = IF r.ttl >= 0 THEN w1.t + r.ttl * 1000 ELSE @,
                    !.n.last_heartbeat_ms = w1.t,
                    !.n.net_backoff_ms = kInitialBackoffMs,
                    !.n.next_net_action_ms = w1.t + cfg.heartbeatIntervalMs]

sendHeartbeat(w, r) ==
  IF ~isSessionValid(w) THEN setLastError(w, "heartbeat skipped: no session")
  ELSE sendHeartbeatBody(w, r)

handleCommand(w, c) ==
  IF ~c.valid THEN setLastError(w, "command malformed")
  ELSE LET w1 == PostV1(w, "ack", [code |-> c.ack, ms |-> 0])
       IN IF ~Is2xx(c.ack) THEN setLastError(w1, "command ack failed") ELSE w1

RECURSIVE handleCommands(_, _)
handleCommands(w, cmds) ==
  IF cmds = <<>> THEN w ELSE handleCommands(handleCommand(w, Head(cmds)), Tail(cmds))

pullCommands(w, r) ==
  IF ~cfg.enableCommandPolling \/ ~isSessionValid(w) THEN w
  ELSE IF ~wifiUp THEN setLastError(w, "command pull: no Wi-Fi")
  ELSE IF ~r.begin THEN scheduleNextNetwork(setLastError(w, "command pull: HTTP begin failed"), 0)
  ELSE
    LET w1 == PostV1(w, "pull", r)
        rj == responseToJson(w1, r)
    IN IF ~rj.res THEN scheduleNextNetwork(rj.w, 0)
       ELSE IF ~Is2xx(r.code)
         THEN scheduleNextNetwork(setLastError(w1, "command pull: HTTP error"), 0)
       ELSE LET w2 == handleCommands(w1, r.cmds)
            IN [w2 EXCEPT !.n.net_backoff_ms = kInitialBackoffMs, !.n.last_error = ""]

processActive(w, t0, in) ==
  LET w1 == IF t0 >= w.n.next_net_action_ms THEN sendHeartbeat(w, in.hb) ELSE w
  IN IF cfg.enableCommandPolling /\ t0 >= w1.n.next_command_action_ms
     THEN [pullCommands(w1, in.pull) EXCEPT
             !.n.next_command_action_ms =
                t0 + (IF cfg.commandPollIntervalMs # 0 THEN cfg.commandPollIntervalMs
                      ELSE cfg.heartbeatIntervalMs)]
     ELSE w1

(* loopTick that does not look at the session before its switch *)
loopTickEntryUnchecked(w) ==
  LET w1 == ensureWiFi(w)
  IN IF w1.n.state = "ERROR" THEN w1
     ELSE IF w1.n.state = "BOOT" /\ wifiUp
          THEN [transitionTo(w1, "HELLO") EXCEPT !.n.next_net_action_ms = w.t]
          ELSE w1

(* loopTick up to its switch: ensureWiFi, BOOT leaves for HELLO when the   *)
(* link is up, ACTIVE leaves for HELLO when the session is not valid or    *)
(* the link is down.                                                       *)
loopTickEntry(w) ==
  LET w1 == ensureWiFi(w)
  IN IF w1.n.state = "ERROR" THEN w1
     ELSE
       LET w2 == IF w1.n.state = "BOOT" /\ wifiUp
                 THEN [transitionTo(w1, "HELLO") EXCEPT !.n.next_net_action_ms = w.t]
                 ELSE w1
       IN IF w2.n.state = "ACTIVE" /\ (~isSessionValid(w2) \/ ~wifiUp)
          THEN [transitionTo(clearSession(w2), "HELLO") EXCEPT !.n.next_net_action_ms = w.t]
          ELSE w2

(* in: the hub's replies to the POSTs the tick may make *)
loopTickV1(w, in) ==
  LET w1 == loopTickEntry(w)
  IN IF w1.n.state = "ERROR" \/ ~wifiUp THEN w1
     ELSE IF w1.n.state = "HELLO" THEN
       IF w.t >= w1.n.next_net_action_ms THEN sendHello(w1, in.hello) ELSE w1
     ELSE IF w1.n.state = "PENDING_POLL" THEN
       IF w.t >= w1.n.next_net_action_ms THEN pollSession(w1, in.session) ELSE w1
     ELSE IF w1.n.state = "ACTIVE" THEN processActive(w1, w.t, in)
     ELSE w1

InitNodeV1 ==
  [state |-> "BOOT", session_token |-> "", session_expires_at_ms |-> 0,
   next_net_action_ms |-> 0, next_command_action_ms |-> 0,
   net_backoff_ms |-> kInitialBackoffMs, last_error |-> "",
   last_heartbeat_ms |-> 0, next_wifi_action_ms |-> 0,
   wifi_backoff_ms |-> kInitialBackoffMs, wifi_credentials |-> TRUE]

(* the constructor: a Config without hub url ends in ERROR *)
ConstructV1(c) ==
  IF c.hubBaseUrl THEN InitNodeV1
  ELSE [InitNodeV1 EXCEPT !.state = "ERROR", !.last_error = "config: hubBaseUrl or slotId missing"]

InitV1 ==
  /\ cfg \in ConfigsV1
  /\ \E cr \in BOOLEAN : node = [ConstructV1(cfg) EXCEPT !.wifi_credentials = cr]
  /\ ws = InitWs
  /\ now = 0
  /\ wifiUp \in BOOLEAN
  /\ obs = IdleObs
  /\ hist = InitHist

DefaultInV1 ==
  [hello |-> NoReplyV1, session |-> NoReplyV1, hb |-> NoReplyV1, pull |-> NoReplyV1]

CommitV1(w) ==
  /\ node' = w.n
  /\ now' = w.t
  /\ obs' = [op |-> "tick", reqs |-> w.reqs, frames |-> w.frames, cbs |-> w.cbs, m |-> NoMsg,
             late |-> FALSE]
  /\ UNCHANGED <<cfg, ws, wifiUp, hist>>

(* a tick that sends nothing: link down, ERROR, or nothing due *)
TickV1Idle ==
  /\ \/ ~wifiUp
     \/ node.state = "ERROR"
     \/ node.state \in {"HELLO", "PENDING_POLL"} /\ now < node.next_net_action_ms
  /\ \E w \in {loopTickV1(World, DefaultInV1)} : CommitV1(w)

(* a tick that reaches sendHello: from BOOT, from HELLO when due, or from  *)
(* ACTIVE when the session is no longer valid                              *)
TickV1Hello ==
  /\ wifiUp
  /\ \/ node.state = "BOOT"
     \/ node.state = "HELLO" /\ now >= node.next_net_action_ms
     \/ node.state = "ACTIVE" /\ ~isSessionValid(World)
  /\ \E r \in HelloRepliesV1 :
       \E w \in {loopTickV1(World, [DefaultInV1 EXCEPT !.hello = r])} : CommitV1(w)

TickV1PendingPoll ==
  /\ wifiUp /\ node.state = "PENDING_POLL" /\ now >= node.next_net_action_ms
  /\ \E r \in SessionRepliesV1 :
       \E w \in {loopTickV1(World, [DefaultInV1 EXCEPT !.session = r])} : CommitV1(w)

TickV1Active ==
  /\ wifiUp /\ node.state = "ACTIVE" /\ isSessionValid(World)
  /\ \E r1 \in IF now >= node.next_net_action_ms THEN HeartbeatRepliesV1 ELSE {NoReplyV1},
        r2 \in IF cfg.enableCommandPolling /\ now >= node.next_command_action_ms
               THEN PullRepliesV1 ELSE {NoReplyV1} :
       \E w \in {loopTickV1(World, [DefaultInV1 EXCEPT !.hb = r1, !.pull = r2])} : CommitV1(w)

ElapseV1 ==
  /\ now + 1000 <= MaxNowV1 /\ now' = now + 1000
  /\ obs' = IdleObs
  /\ UNCHANGED <<cfg, node, ws, wifiUp, hist>>

NextV1 ==
  \/ TickV1Idle
  \/ TickV1Hello
  \/ TickV1PendingPoll
  \/ TickV1Active
  \/ ElapseV1
  \/ WiFiChange

SpecV1 == InitV1 /\ [][NextV1]_vars

----------------------------------------------------------------------------
(* The earlier variant's stream handling: the hub opens a stream, sends a  *)
(* raw HTTP request as base64 data frames (direction c2n) and gets one raw *)
(* response back (direction n2c).  request_buf_ is kept as the number of   *)
(* bytes buffered; what they are is known from the request the hub is      *)
(* sending (ws.req) because open_stream empties the buffer.  A request is  *)
(* hdr bytes of request line and headers up to and including the blank     *)
(* line, then cl body bytes; canon tells whether its length header is      *)
(* spelled "Content-Length:" (otherwise e.g. "content-length:").           *)

kMaxStreamRequestSize == 4096
kStreamIdSize == 64

HeaderLen == 40           \* bytes of request line and headers drawn
MaxFrames == 5            \* data frames per stream

StreamRequests ==
  { [hdr |-> HeaderLen, cl |-> c, canon |-> k, method |-> mp[1], path |-> mp[2]] :
      c \in {0, 5, kMaxStreamRequestSize, kMaxStreamRequestSize + 1},
      k \in BOOLEAN, mp \in {<<"GET", "/ping">>, <<"POST", "/upload">>} }

ChunkLens == {1, 5, HeaderLen - 1, HeaderLen, kMaxStreamRequestSize - HeaderLen,
              kMaxStreamRequestSize}

StreamIdLens == {1, kStreamIdSize}

routeHttpRequest(method, path) ==
  IF method = "GET" /\ path \in {"/ping", "/api/ping", "/status", "/api/status"}
  THEN 200 ELSE 404

sendDataFrame(w, streamId, status) ==
  IF streamId = <<>> THEN w
  ELSE [w EXCEPT !.frames = Append(@, [type |-> "data", stream_id |-> streamId,
                                       direction |-> "n2c", status |-> status])]

tryProcessHttpRequest(w, req) ==
  IF w.n.request_buf < req.hdr THEN w
  ELSE
    LET contentLen == IF req.canon THEN req.cl ELSE 0
        availableBody == w.n.request_buf - req.hdr
    IN IF contentLen > availableBody THEN w
       ELSE
         LET statusCode == IF cfg.request_handler = "handled" THEN 201
                           ELSE routeHttpRequest(req.method, req.path)
             w1 == sendDataFrame(w, w.n.active_stream_id, statusCode)
         IN [w1 EXCEPT !.n.stream_open = FALSE, !.n.request_buf = 0,
                       !.n.active_stream_id = <<>>]

(* a data frame carrying the next decodedLen bytes of req *)
handleData(w, req, direction, decodedLen) ==
  IF ~w.n.stream_open THEN w
  ELSE IF direction # "c2n" THEN w
  ELSE IF w.n.request_buf + decodedLen > kMaxStreamRequestSize THEN
    [sendDataFrame(w, w.n.active_stream_id, 413) EXCEPT
       !.n.stream_open = FALSE, !.n.request_buf = 0]
  ELSE tryProcessHttpRequest([w EXCEPT !.n.request_buf = @ + decodedLen], req)

handleControl(w, cmd, streamId) ==
  IF cmd = "open_stream" THEN
    [w EXCEPT !.n.active_stream_id = SubSeq(streamId, 1, Min(Len(streamId), kStreamIdSize - 1)),
              !.n.stream_open = TRUE, !.n.request_buf = 0]
  ELSE IF cmd = "close_stream" THEN
    IF w.n.active_stream_id = streamId
    THEN [w EXCEPT !.n.stream_open = FALSE, !.n.request_buf = 0]
    ELSE w
  ELSE w

NoStream == [req |-> [hdr |-> 0, cl |-> 0, canon |-> TRUE, method |-> "", path |-> ""],
             id |-> <<>>, sent |-> 0, frames |-> 0]

InitStream ==
  /\ cfg \in { [request_handler |-> h] : h \in {"none", "handled", "declined"} }
  /\ node = [stream_open |-> FALSE, active_stream_id |-> <<>>, request_buf |-> 0]
  /\ ws = NoStream
  /\ now = 0
  /\ wifiUp = TRUE
  /\ obs = IdleObs
  /\ hist = InitHist

CommitStream(op, w, peer) ==
  /\ node' = w.n
  /\ ws' = peer
  /\ obs' = [op |-> op, reqs |-> <<>>, frames |-> w.frames, cbs |-> w.cbs, m |-> NoMsg,
             late |-> FALSE]
  /\ UNCHANGED <<cfg, now, wifiUp, hist>>

(* the hub opens a stream for a request it is about to send *)
OpenStream ==
  \E req \in StreamRequests, n \in StreamIdLens :
    \E w \in {handleControl(World, "open_stream", IdOfLen(n))} :
      CommitStream("open", w, [req |-> req, id |-> IdOfLen(n), sent |-> 0, frames |-> 0])

(* the hub sends the next bytes of the request, however many *)
DeliverData ==
  /\ ws.id # <<>> /\ ws.frames < MaxFrames
  /\ ws.sent < ws.req.hdr + ws.req.cl
  /\ \E k \in ChunkLens :
       /\ ws.sent + k <= ws.req.hdr + ws.req.cl
       /\ CommitStream("data", handleData(World, ws.req, "c2n", k),
                       [ws EXCEPT !.sent = @ + k, !.frames = @ + 1])

(* a data frame after the request has been sent in full, or one in the     *)
(* other direction                                                         *)
DeliverStray ==
  /\ ws.id # <<>> /\ ws.frames < MaxFrames
  /\ \E d \in {"c2n", "n2c"} :
       /\ d = "c2n" => ws.sent = ws.req.hdr + ws.req.cl
       /\ CommitStream("stray", handleData(World, ws.req, d, 1),
                       [ws EXCEPT !.frames = @ + 1])

CloseStream ==
  /\ ws.id # <<>>
  /\ CommitStream("close", handleControl(World, "close_stream", ws.id), NoStream)

NextStream ==
  \/ OpenStream
  \/ DeliverData
  \/ DeliverStray
  \/ CloseStream

SpecStream == InitStream /\ [][NextStream]_vars

----------------------------------------------------------------------------
(* The HTTP transport under postJsonUnified: safePostJson, its file-static *)
(* TLS failure counter (uint8_t) and the fallback to plain HTTP.  g holds  *)
(* the file-static counter; net is the network's part in one call: whether *)
(* a TLS / a plain connect succeeds, whether the header block ends before  *)
(* the timeout, the status parsed from the status line and the number of   *)
(* body bytes read.                                                        *)

MAX_HTTPS_FAIL_COUNT == 2

parseBaseUrl(url) ==
  IF url = "https://hub" THEN [ok |-> TRUE, useTls |-> TRUE, port |-> 443]
  ELSE IF url = "hub:8443" THEN [ok |-> TRUE, useTls |-> TRUE, port |-> 8443]
  ELSE IF url = "http://hub" THEN [ok |-> TRUE, useTls |-> FALSE, port |-> 80]
  ELSE IF url = "http://hub:8080" THEN [ok |-> TRUE, useTls |-> FALSE, port |-> 8080]
  ELSE [ok |-> FALSE, useTls |-> TRUE, port |-> 443]

HubUrls == {"https://hub", "hub:8443", "http://hub", "http://hub:8080", ""}

HttpExchanges ==
  { [tls |-> t, plain |-> pl, header |-> h.header, status |-> h.status, total |-> h.total] :
      t \in BOOLEAN, pl \in BOOLEAN,
      h \in { [header |-> FALSE, status |-> 0, total |-> 0],
              [header |-> TRUE, status |-> 200, total |-> 10],
              [header |-> TRUE, status |-> 200, total |-> 0],
              [header |-> TRUE, status |-> 500, total |-> 10] } }

RECURSIVE safePostJson(_, _, _, _, _)
safePostJson(g, port, useTls, net, log) ==
  LET connected == IF useTls THEN net.tls ELSE net.plain
      log1 == Append(log, [tls |-> useTls, port |-> port, connected |-> connected])
  IN IF ~connected THEN
       IF useTls THEN
         LET g1 == [g EXCEPT !.httpsFailCount = (@ + 1) % 256]
         IN IF g1.httpsFailCount >= MAX_HTTPS_FAIL_COUNT
            THEN safePostJson(g1, 80, FALSE, net, log1)
            ELSE [g |-> g1, ok |-> FALSE, status |-> 0, attempts |-> log1]
       ELSE [g |-> g, ok |-> FALSE, status |-> 0, attempts |-> log1]
     ELSE IF ~net.header THEN
       [g |-> g, ok |-> FALSE, status |-> net.status, attempts |-> log1]
     ELSE
       [g |-> IF useTls /\ net.total > 0 /\ net.status > 0
              THEN [g EXCEPT !.httpsFailCount = 0] ELSE g,
        ok |-> net.total > 0 /\ net.status > 0,
        status |-> net.status, attempts |-> log1]

(* postJsonUnified with the transport spelled out *)
postJsonUnifiedHttp(g, url, net) ==
  LET u == parseBaseUrl(url)
  IN IF ~u.ok THEN [g |-> g, ok |-> FALSE, status |-> 0, attempts |-> <<>>]
     ELSE IF u.useTls /\ g.httpsFailCount >= MAX_HTTPS_FAIL_COUNT
          THEN safePostJson(g, 80, FALSE, net, <<>>)
          ELSE safePostJson(g, u.port, u.useTls, net, <<>>)

InitHttp ==
  /\ cfg \in { [hubBaseUrl |-> u] : u \in HubUrls }
  /\ node = InitNode
  /\ ws = [httpsFailCount |-> 0]
  /\ now = 0
  /\ wifiUp = TRUE
  /\ obs = [op |-> "idle", ep |-> "", ok |-> FALSE, status |-> 0, attempts |-> <<>>]
  /\ hist = InitHist

Endpoints == {"hello", "pair", "approve", "session", "register_by_slot"}

(* one control POST of the node *)
PostJson ==
  \E ep \in Endpoints, net \in HttpExchanges :
    \E r \in {postJsonUnifiedHttp(ws, cfg.hubBaseUrl, net)} :
      /\ ws' = r.g
      /\ obs' = [op |-> "post", ep |-> ep, ok |-> r.ok, status |-> r.status,
                 attempts |-> r.attempts]
      /\ UNCHANGED <<cfg, node, now, wifiUp, hist>>

NextHttp == PostJson

SpecHttp == InitHttp /\ [][NextHttp]_vars

(* C15: the second consecutive TLS connect failure is followed, in the     *)
(* same request, by exactly one attempt over plain HTTP on port 80; and a  *)
(* request that succeeds puts the TLS failure counter back to zero, so a   *)
(* later request goes over TLS again.                                      *)
C15_TlsFallbackNotPermanent ==
  [][ /\ (obs'.op = "post" /\ ws.httpsFailCount = MAX_HTTPS_FAIL_COUNT - 1
          /\ obs'.attempts # <<>> /\ obs'.attempts[1].tls /\ ~obs'.attempts[1].connected)
         => /\ Len(obs'.attempts) = 2
            /\ ~obs'.attempts[2].tls /\ obs'.attempts[2].port = 80
      /\ (obs'.op = "post" /\ obs'.ok) => ws'.httpsFailCount = 0 ]_vars

C15_PlainSuccessAfterFallback ==
  /\ obs.op = "post" /\ obs.ok /\ Len(obs.attempts) = 1 /\ ~obs.attempts[1].tls
  /\ parseBaseUrl(cfg.hubBaseUrl).useTls
  /\ ws.httpsFailCount = MAX_HTTPS_FAIL_COUNT

----------------------------------------------------------------------------
(* Backoff counters *)

(* the tick sent a hello whose answer was taken: the branch that stores    *)
(* the next pair / approve times                                           *)
HelloAccepted ==
  /\ obs.op = "tick" /\ SentIn(obs, "hello")
  /\ node.nextPairMs = now + kAfterHelloDelayMs
  /\ node.nextApproveMs = now + kAfterHelloDelayMs

(* the tick sent a pair request that registered the node *)
PairAccepted ==
  /\ obs.op = "tick" /\ SentIn(obs, "pair")
  /\ \E i \in 1..Len(obs.cbs) : obs.cbs[i].cb = "registered"

(* the tick delivered register_ack ok *)
RegisterAcked ==
  /\ obs.op = "tick" /\ obs.m.kind = "register_ack" /\ obs.m.ack = "ok"
  /\ node.tunnelRegistered

(* C14: for each backoff counter (net, pair, tunnel), one or more advances *)
(* followed by a reset leave the counter at its minimum: 2000 ms, and step *)
(* index 0 for the tunnel.                                                 *)
C14_AdvanceThenResetIsMinimum ==
  /\ (HelloAccepted /\ hist.pre.net > kBackoffMinMs) => node.netBackoffMs = kBackoffMinMs
  /\ (PairAccepted /\ hist.pre.pair > kBackoffMinMs) => node.pairBackoffMs = kBackoffMinMs
  /\ (RegisterAcked /\ hist.pre.tunnel > 0)
       => (node.tunnelBackoffIndex = 0 /\ node.tunnelBackoffMs = kTunnelBackoffMs[1])

C14_PairResetAfterAdvance == PairAccepted /\ hist.pre.pair > kBackoffMinMs

NetResetAfterAdvance == HelloAccepted /\ hist.pre.net > kBackoffMinMs

TunnelResetAfterAdvance == RegisterAcked /\ hist.pre.tunnel > 0

(* the tick sent one hello and the connection failed *)
HelloConnectFailed(o) ==
  o.op = "tick" /\ Len(o.reqs) = 1 /\ o.reqs[1].ep = "hello" /\ ~o.reqs[1].ok

(* the tick sent one hello and the hub answered 200 *)
HelloAnswered200(o) ==
  o.op = "tick" /\ Len(o.reqs) = 1 /\ o.reqs[1].ep = "hello"
  /\ o.reqs[1].ok /\ o.reqs[1].status = 200

(* C13: a hello connect failure schedules the next attempt after the net   *)
(* backoff in force when it failed and then doubles the backoff up to      *)
(* 60000 ms (from 2000 ms: 2000, 4000, 8000, 16000, 32000, then 60000),    *)
(* and a hello answered 200 puts the net backoff back to 2000 ms.          *)
C13_HelloBackoffSchedule ==
  [][ /\ HelloConnectFailed(obs')
          => /\ node'.nextHelloMs = now' + node.netBackoffMs
             /\ node'.netBackoffMs = Min(2 * node.netBackoffMs, kBackoffMaxMs)
      /\ HelloAnswered200(obs') => node'.netBackoffMs = kBackoffMinMs ]_vars

C13_FirstConnectFailure ==
  /\ HelloConnectFailed(obs) /\ hist.pre.net = kBackoffMinMs
  /\ node.nextHelloMs = now + 2 * kBackoffMinMs

----------------------------------------------------------------------------
(* The earlier variant: session validity, heartbeat, last_error_ *)

ReqsOf(o, eps) == SelectSeq(o.reqs, LAMBDA q : q.ep \in eps)

(* C16: a tick that finds the node ACTIVE with a session that is no longer *)
(* valid (token empty or TTL elapsed) clears the session and takes the     *)
(* machine to HELLO first thing, and no heartbeat or command pull ever     *)
(* leaves with a session that is not valid.                                *)
C16_InvalidSessionLeavesActive ==
  [][ /\ (obs'.op = "tick" /\ node.state = "ACTIVE" /\ ~isSessionValid(World))
         => /\ StateCbs(obs') # <<>>
            /\ StateCbs(obs')[1].a = "ACTIVE" /\ StateCbs(obs')[1].b = "HELLO"
            /\ node'.state \in {"HELLO", "PENDING_POLL"}
            /\ node'.session_token = "" /\ node'.session_expires_at_ms = 0
            /\ ReqsOf(obs', {"heartbeat", "pull", "ack"}) = <<>>
      /\ obs'.op = "tick"
         => \A i \in 1..Len(obs'.reqs) :
              obs'.reqs[i].ep \in {"heartbeat", "pull"} => obs'.reqs[i].valid ]_vars

C16_ExpiredSessionDropped ==
  /\ obs.op = "tick" /\ wifiUp
  /\ StateCbs(obs) # <<>> /\ StateCbs(obs)[1].a = "ACTIVE" /\ StateCbs(obs)[1].b = "HELLO"
  /\ ReqsOf(obs, {"heartbeat", "pull"}) = <<>>
  /\ ReqsOf(obs, {"hello"}) # <<>>
  /\ node.session_token = ""

ErrorCbs(o) == SelectSeq(o.cbs, LAMBDA c : c.cb = "error")

(* the tick sent a heartbeat that the hub answered 401 or 403 *)
HeartbeatRefused(o) ==
  /\ o.op = "tick"
  /\ \E i \in 1..Len(o.reqs) : o.reqs[i].ep = "heartbeat" /\ o.reqs[i].status \in {401, 403}

(* C17: a heartbeat answered 401 or 403 clears the session, takes the      *)
(* state to HELLO, schedules the next control action at now plus the net   *)
(* backoff in force, and the error observer is called with the string that *)
(* is then stored as last_error.                                           *)
C17_HeartbeatAuthFailure ==
  [][ HeartbeatRefused(obs')
        => /\ node'.session_token = "" /\ node'.session_expires_at_ms = 0
           /\ node'.state = "HELLO"
           /\ node'.next_net_action_ms = now' + node.net_backoff_ms
           /\ ErrorCbs(obs') # <<>>
           /\ ErrorCbs(obs')[Len(ErrorCbs(obs'))].b = node'.last_error ]_vars

C17_RefusedHeartbeatKeepsSession ==
  /\ HeartbeatRefused(obs)
  /\ node.state = "ACTIVE" /\ node.session_token # ""

(* C12: the error observer is called exactly when the recorded last-error  *)
(* value changes: never for the value already recorded, and for every      *)
(* change, with the string newly stored; so the calls of one operation     *)
(* lead from the value recorded before it to the value recorded after it.  *)
C12_ErrorObserverOnChange ==
  [][ LET e == ErrorCbs(obs')
      IN /\ \A i \in 1..Len(e) : e[i].a # e[i].b
         /\ \A i \in 1..(Len(e) - 1) : e[i].b = e[i + 1].a
         /\ e = <<>> => node'.last_error = node.last_error
         /\ e # <<>> => (e[1].a = node.last_error /\ e[Len(e)].b = node'.last_error) ]_vars

C12_ClearedWithoutObserver ==
  /\ obs.op = "tick" /\ ReqsOf(obs, {"pull"}) # <<>>
  /\ ErrorCbs(obs) # <<>>
  /\ ErrorCbs(obs)[Len(ErrorCbs(obs))].b = "command ack failed"
  /\ node.last_error = ""

----------------------------------------------------------------------------
(* The earlier variant: segmented streams *)

(* C18: on a segmented stream, a request declaring Content-Length 4096 and *)
(* carrying 4096 body bytes is dispatched (its response is the handler's   *)
(* or the router's, not the 413) and the stream closed when its last byte  *)
(* arrives; a request declaring Content-Length 4097 is answered with the   *)
(* synthetic 413 and the stream closed.                                    *)
C18_ContentLengthLimit ==
  [][ (obs'.op = "data" /\ ws.req.canon /\ node.stream_open)
        => /\ (ws.req.cl = kMaxStreamRequestSize /\ obs'.frames # <<>>)
                => obs'.frames[1].status # 413
           /\ (ws.req.cl = kMaxStreamRequestSize /\ ws'.sent = ws.req.hdr + ws.req.cl)
                => (Len(obs'.frames) = 1 /\ ~node'.stream_open)
           /\ (ws.req.cl = kMaxStreamRequestSize + 1 /\ obs'.frames # <<>>)
                => (obs'.frames[1].status = 413 /\ ~node'.stream_open) ]_vars

C18_LimitSizedBodyRefused ==
  /\ obs.op = "data" /\ ws.req.canon /\ ws.req.cl = kMaxStreamRequestSize
  /\ Len(obs.frames) = 1 /\ obs.frames[1].status = 413
  /\ ~node.stream_open

(* C19: a request delivered on an open stream as several c2n data frames,  *)
(* split anywhere, gets exactly one n2c response frame with the stream's   *)
(* id, sent when the frame that completes the request arrives and not      *)
(* before; the stream is then closed, and data frames on a closed stream   *)
(* are ignored.                                                            *)
C19_OneResponsePerRequest ==
  [][ /\ (obs'.op = "data" /\ node.stream_open)
         => IF ws'.sent = ws.req.hdr + ws.req.cl
            THEN /\ Len(obs'.frames) = 1
                 /\ obs'.frames[1].stream_id = ws.id
                 /\ obs'.frames[1].direction = "n2c"
                 /\ ~node'.stream_open
            ELSE obs'.frames = <<>> /\ node'.stream_open
      /\ (obs'.op \in {"data", "stray"} /\ ~node.stream_open)
         => (obs'.frames = <<>> /\ node' = node) ]_vars

C19_AnsweredBeforeComplete ==
  /\ obs.op = "data" /\ Len(obs.frames) = 1 /\ obs.frames[1].status # 413
  /\ ws.sent < ws.req.hdr + ws.req.cl
  /\ ~node.stream_open

----------------------------------------------------------------------------
(* What a hello tick received: one POST to /api/device/hello answered 2xx  *)
(* with a body that parses and whose status is not DENIED.                 *)

HelloAdmitted(o) ==
  /\ o.op = "tick" /\ Len(o.reqs) = 1 /\ o.reqs[1].ep = "hello"
  /\ o.reqs[1].ok /\ Is2xx(o.reqs[1].status)
  /\ o.reqs[1].body \in {"PENDING", "APPROVED", "PENDING_CODE", "APPROVED_CODE"}

HelloCarriesCode(o) == o.reqs[1].body \in {"PENDING_CODE", "APPROVED_CODE"}

(* C21: a 2xx hello answer that is not DENIED and carries a pairing code   *)
(* takes the machine to PAIR_SUBMIT when self-approve is disabled and to   *)
(* PENDING_POLL when it is enabled.                                        *)
C21_HelloWithCodeSelectsBranch ==
  (HelloAdmitted(obs) /\ HelloCarriesCode(obs))
    => node.state = IF cfg.enableSelfApprove THEN "PENDING_POLL" ELSE "PAIR_SUBMIT"

C21_FlagWithoutPathPairs ==
  /\ HelloAdmitted(obs) /\ HelloCarriesCode(obs)
  /\ cfg.enableSelfApprove /\ ~cfg.approveEndpointPath
  /\ node.state = "PAIR_SUBMIT"

(* C22: a 2xx hello answer with status PENDING or APPROVED and no pairing  *)
(* code takes the machine from HELLO to PENDING_POLL.                      *)
C22_HelloWithoutCodePolls ==
  (HelloAdmitted(obs) /\ ~HelloCarriesCode(obs)) => node.state = "PENDING_POLL"

C22_HelloWithoutCodeStays ==
  /\ HelloAdmitted(obs) /\ ~HelloCarriesCode(obs)
  /\ node.state = "HELLO" /\ ~node.pairingCodeValid
  /\ node.nextHelloMs = now + kDefaultRetryAfterMs

(* A hello tick whose POST was answered 401, 403 or 410. *)
HelloRefused(o) ==
  o.op = "tick" /\ Len(o.reqs) = 1 /\ IsHelloRefusal(o.reqs[1])

HelloRefusedTwice == HelloRefused(obs) /\ hist.helloRefusals = 2

(* The session refresh of a tick was answered 200/201 with status GRANTED. *)
RefreshGranted(o) ==
  \E i \in 1..Len(o.reqs) :
    /\ o.reqs[i].ep = "session_refresh" /\ o.reqs[i].ok
    /\ o.reqs[i].status \in {200, 201} /\ o.reqs[i].body = "GRANTED"

(* C24: the first tick with the link up takes BOOT to HELLO; with a        *)
(* session token stored, a session refresh is posted first, and a refresh  *)
(* that succeeds takes the machine straight to ACTIVE; no hello request is *)
(* sent in that tick.                                                      *)
C24_BootRefreshesThenHello ==
  [][ (node.state = "BOOT" /\ wifiUp /\ obs'.op = "tick") =>
        /\ ~SentIn(obs', "hello")
        /\ node.sessionToken = "" => (obs'.reqs = <<>> /\ node'.state = "HELLO")
        /\ (node.sessionToken # "" /\ cfg.hubBaseUrl) =>
              (Len(obs'.reqs) = 1 /\ obs'.reqs[1].ep = "session_refresh")
        /\ node'.state = IF RefreshGranted(obs') THEN "ACTIVE" ELSE "HELLO" ]_vars

C24_RefreshSkipsHello ==
  /\ obs.op = "tick" /\ Len(obs.reqs) = 1 /\ RefreshGranted(obs)
  /\ node.state = "ACTIVE" /\ ~SentIn(obs, "hello")

(* the refresh that fails and falls back to HELLO *)
RefreshFailedToHello ==
  /\ obs.op = "tick" /\ SentIn(obs, "session_refresh") /\ ~RefreshGranted(obs)
  /\ node.state = "HELLO"

(* A pair tick whose POST failed: no answer, a status outside 2xx, a body  *)
(* that does not parse, or ok = false.                                     *)
PairFailed(o) ==
  /\ o.op = "tick" /\ Len(o.reqs) = 1 /\ o.reqs[1].ep = "pair"
  /\ ~(o.reqs[1].ok /\ Is2xx(o.reqs[1].status) /\ o.reqs[1].body = "OK_TRUE")

(* C25: every failed pair submission clears the pairing material, advances *)
(* the pair backoff and returns the machine to HELLO.                      *)
C25_PairFailureBacksOff ==
  PairFailed(obs) =>
    /\ ~node.pairingCodeValid /\ node.pairingCode = ""
    /\ node.state = "HELLO"
    /\ node.pairBackoffMs = Min(2 * hist.pre.pair, kBackoffMaxMs)

C25_UnparsablePairKeepsBackoff ==
  /\ PairFailed(obs) /\ obs.reqs[1].ok /\ obs.reqs[1].body = "badjson"
  /\ node.state = "HELLO" /\ ~node.pairingCodeValid
  /\ node.pairBackoffMs = hist.pre.pair
  /\ node.nextHelloMs = now + kDefaultRetryAfterMs

(* The answers the code takes as success: pair answered 2xx with          *)
(* ok = true, approve answered 2xx (other than through the 400/401/403/410 *)
(* branches) with a body that parses.                                      *)
Answered(o, ep, bodies) ==
  /\ o.op = "tick"
  /\ \E i \in 1..Len(o.reqs) :
       /\ o.reqs[i].ep = ep /\ o.reqs[i].ok /\ Is2xx(o.reqs[i].status)
       /\ o.reqs[i].body \in bodies

PairSucceeded(o) == Answered(o, "pair", {"OK_TRUE"})

ApproveSucceeded(o) == Answered(o, "approve", {"granted"})

(* C26: after a successful pair submission and after a successful approve  *)
(* the pairing material is cleared: valid flag false, code empty.          *)
C26_SuccessClearsPairing ==
  (PairSucceeded(obs) \/ ApproveSucceeded(obs))
    => (~node.pairingCodeValid /\ node.pairingCode = "")

C26_ApprovedKeepsPairing ==
  /\ ApproveSucceeded(obs) /\ node.state = "ACTIVE"
  /\ node.pairingCodeValid /\ node.pairingCode # ""

(* What the hub granted in a tick. *)
ApproveGaveTokens(o) ==
  \E i \in 1..Len(o.reqs) :
    /\ o.reqs[i].ep = "approve" /\ o.reqs[i].ok /\ Is2xx(o.reqs[i].status)
    /\ o.reqs[i].tok \/ o.reqs[i].ntok

SessionGranted(o) ==
  \E i \in 1..Len(o.reqs) :
    o.reqs[i].ep = "session" /\ o.reqs[i].ok /\ o.reqs[i].body = "GRANTED"

SlotRegistered(o) ==
  \E i \in 1..Len(o.reqs) :
    /\ o.reqs[i].ep = "register_by_slot" /\ o.reqs[i].ok /\ Is2xx(o.reqs[i].status)
    /\ o.reqs[i].body = "FULL" /\ o.reqs[i].ntok /\ o.reqs[i].tun

(* C27: the machine goes from PENDING_POLL to ACTIVE only when approve was *)
(* answered 2xx with tokens, or the session poll was answered GRANTED, or  *)
(* register_by_slot was answered 2xx with node_id, node_auth_token and     *)
(* tunnel_url all present.                                                 *)
C27_ActiveOnlyWhenGranted ==
  [][ (node.state = "PENDING_POLL" /\ node'.state = "ACTIVE")
        => (ApproveGaveTokens(obs') \/ SessionGranted(obs') \/ SlotRegistered(obs')) ]_vars

C27_ActiveWithoutTokens ==
  /\ ApproveSucceeded(obs) /\ ~ApproveGaveTokens(obs)
  /\ ~SessionGranted(obs) /\ ~SlotRegistered(obs)
  /\ node.state = "ACTIVE" /\ node.sessionToken = "" /\ node.nodeToken = ""

(* The approve of a tick was answered 400 with missing_mac in the body. *)
MissingMacAnswered(o) ==
  \E i \in 1..Len(o.reqs) :
    /\ o.reqs[i].ep = "approve" /\ o.reqs[i].ok
    /\ o.reqs[i].status = 400 /\ o.reqs[i].body = "missing_mac"

(* C28: an approve answered 400 missing_mac sets approveMissingMacFailed   *)
(* and reports an error; once the latch is set it stays set and no approve *)
(* request is sent any more.                                               *)
C28_MissingMacLatch ==
  [][ /\ MissingMacAnswered(obs') =>
           /\ node'.approveMissingMacFailed
           /\ \E i \in 1..Len(obs'.cbs) :
                obs'.cbs[i].cb = "error" /\ obs'.cbs[i].a = "approve: missing_mac"
      /\ node.approveMissingMacFailed =>
           (node'.approveMissingMacFailed /\ ~SentIn(obs', "approve")) ]_vars

(* a PENDING_POLL tick after the latch, with the approve due: it polls the *)
(* session and leaves the approve alone                                    *)
C28_LatchedTickSkipsApprove ==
  /\ node.approveMissingMacFailed /\ ~MissingMacAnswered(obs)
  /\ obs.op = "tick" /\ SentIn(obs, "session") /\ ~SentIn(obs, "approve")
  /\ cfg.enableSelfApprove /\ cfg.approveEndpointPath
  /\ node.pairingCodeValid /\ node.sessionToken = "" /\ now >= node.nextApproveMs
  /\ node.state = "PENDING_POLL"

(* A tick that sent one request, to ep, answered 2xx. *)
OneAnswered2xx(o, eps) ==
  /\ o.op = "tick" /\ Len(o.reqs) = 1 /\ o.reqs[1].ep \in eps
  /\ o.reqs[1].ok /\ Is2xx(o.reqs[1].status)

(* C29: every 2xx answer to a control request (hello, session poll,        *)
(* approve, register_by_slot) resets the net backoff to 2000 ms, whatever  *)
(* status its body carries.                                                *)
C29_Any2xxResetsNetBackoff ==
  OneAnswered2xx(obs, {"hello", "session", "approve", "register_by_slot"})
    => node.netBackoffMs = kBackoffMinMs

C29_PendingPollKeepsBackoff ==
  /\ OneAnswered2xx(obs, {"session"}) /\ obs.reqs[1].body = "PENDING"
  /\ hist.pre.net > kBackoffMinMs /\ node.netBackoffMs = hist.pre.net

(* The tick delivered a register_ack frame with status ok. *)
RegisterAckOk(o) ==
  o.op = "tick" /\ o.m.kind = "register_ack" /\ o.m.ack = "ok"

TunnelUpEmitted(o) ==
  \E i \in 1..Len(o.cbs) : o.cbs[i].cb = "tunnel" /\ o.cbs[i].a = "up"

(* C30: when a register_ack frame with status ok arrives the state becomes *)
(* TUNNEL_CONNECTED, the tunnel backoff returns to step 0 and the          *)
(* tunnel-up observer is called at that point.                             *)
C30_RegisterAckConnects ==
  RegisterAckOk(obs) =>
    /\ node.state = "TUNNEL_CONNECTED"
    /\ node.tunnelBackoffIndex = 0 /\ node.tunnelBackoffMs = kTunnelBackoffMs[1]
    /\ TunnelUpEmitted(obs)

C30_AckWithoutTunnelUp ==
  /\ RegisterAckOk(obs) /\ node.state = "TUNNEL_CONNECTED" /\ node.tunnelRegistered
  /\ ~TunnelUpEmitted(obs)

(* where the observer is called instead: the tick of the Connected event,  *)
(* before any register_ack                                                 *)
TunnelUpOnConnect ==
  /\ obs.op = "tick" /\ TunnelUpEmitted(obs) /\ obs.m = NoMsg
  /\ ~node.tunnelRegistered /\ node.state = "TUNNEL_CONNECTING"

(* The tick delivered a register_ack frame with status error. *)
RegisterAckError(o, reason) ==
  o.op = "tick" /\ o.m.kind = "register_ack" /\ o.m.ack = "error" /\ o.m.reason = reason

(* C31: register_ack with status error.  MISSING_AUTH_TOKEN clears the     *)
(* session token, makes the approve due at once and sets the next tunnel   *)
(* connect to now + 3000; SLOT_ID_MISMATCH changes neither the session     *)
(* token nor the approve schedule; an unknown reason schedules the         *)
(* reconnect at now plus the current tunnel backoff.                       *)
C31_RegisterAckErrorReasons ==
  [][ /\ RegisterAckError(obs', "MISSING_AUTH_TOKEN") =>
           /\ node'.sessionToken = "" /\ node'.nextApproveMs <= now'
           /\ node'.nextTunnelConnectMs = now' + kTunnelNoTokenRetryMs
      /\ RegisterAckError(obs', "SLOT_ID_MISMATCH") =>
           /\ node'.sessionToken = node.sessionToken
           /\ node'.nextApproveMs = node.nextApproveMs
      /\ RegisterAckError(obs', "") =>
           /\ node'.nextTunnelConnectMs = now' + node.tunnelBackoffMs
           /\ node'.tunnelBackoffMs = node.tunnelBackoffMs ]_vars

C31_TokenClearedOnRefusal ==
  /\ RegisterAckError(obs, "MISSING_AUTH_TOKEN")
  /\ node.sessionToken = "" /\ node.nextApproveMs = 0
  /\ node.nextTunnelConnectMs = now + kTunnelNoTokenRetryMs
  /\ node.nextTunnelConnectMs # now + node.tunnelBackoffMs

(* the other two reasons of the claim *)
SlotMismatchRefused ==
  RegisterAckError(obs, "SLOT_ID_MISMATCH") /\ node.sessionToken # "" /\ node.nextApproveMs > 0

UnknownReasonRefused ==
  RegisterAckError(obs, "") /\ node.tunnelBackoffIndex > 0

(* A tick whose tunnelLoop reaches the connect attempt with no session    *)
(* token: tunnelConnect returns before it allocates the client.            *)
ConnectSkippedForToken ==
  /\ wifiUp /\ node.state \in {"ACTIVE", "TUNNEL_CONNECTING", "TUNNEL_CONNECTED"}
  /\ ~ws.pending /\ ws.client = "null"
  /\ cfg.enableTunnel /\ node.tunnelUrl # "" /\ node.nodeToken # ""
  /\ node.sessionToken = "" /\ now >= node.nextTunnelConnectMs

RegisterFramesCarryToken(o) ==
  \A i \in 1..Len(o.frames) : o.frames[i].type = "register" => o.frames[i].text # ""

(* C32: without a session token no register frame is sent (a register     *)
(* frame never carries an empty auth_token), and the skipped attempt       *)
(* leaves the tunnel reconnect scheduled 3000 ms later with the approve    *)
(* due at once.                                                            *)
C32_NoTokenNoRegister ==
  [][ /\ RegisterFramesCarryToken(obs')
      /\ node.sessionToken = "" /\ obs'.op = "tick" =>
           \A i \in 1..Len(obs'.frames) : obs'.frames[i].type # "register"
      /\ ConnectSkippedForToken /\ obs'.op = "tick" =>
           /\ node'.nextTunnelConnectMs = now' + kTunnelNoTokenRetryMs
           /\ node'.nextApproveMs <= now' ]_vars

(* the first half alone: what is sent *)
RegisterNeedsToken ==
  [][ /\ RegisterFramesCarryToken(obs')
      /\ node.sessionToken = "" /\ obs'.op = "tick" =>
           \A i \in 1..Len(obs'.frames) : obs'.frames[i].type # "register" ]_vars

(* the skipped attempt, as the tick leaves it *)
C32_SkippedAttemptSchedule ==
  /\ obs.op = "tick" /\ node.sessionToken = "" /\ node.nodeToken # ""
  /\ ws.client = "null" /\ node.state = "TUNNEL_CONNECTING"
  /\ node.nextApproveMs = 0
  /\ node.nextTunnelConnectMs = now + node.tunnelBackoffMs
  /\ node.nextTunnelConnectMs # now + kTunnelNoTokenRetryMs

(* A teardown (tunnelDisconnectCleanup) shows as the tunnel-down observer *)
(* call: TunnelDownEmitted.                                                *)

(* C33: the tunnel backoff index is always in 0..4 and the reconnect delay *)
(* is always the entry of the step table at that index; each teardown      *)
(* advances the index by one, saturating at 4 (60000 ms); a register_ack   *)
(* with status ok returns it to 0.                                         *)
C33_TunnelBackoffSteps ==
  [][ /\ node'.tunnelBackoffIndex \in 0..(kTunnelBackoffSteps - 1)
      /\ node'.tunnelBackoffMs = kTunnelBackoffMs[node'.tunnelBackoffIndex + 1]
      /\ TunnelDownEmitted(obs') =>
           node'.tunnelBackoffIndex = Min(node.tunnelBackoffIndex + 1, 4)
      /\ RegisterAckOk(obs') => node'.tunnelBackoffIndex = 0
      /\ ~TunnelDownEmitted(obs') /\ ~RegisterAckOk(obs') =>
           node'.tunnelBackoffIndex = node.tunnelBackoffIndex ]_vars

(* a teardown at the last step stays there *)
C33_TeardownSaturates ==
  /\ TunnelDownEmitted(obs) /\ hist.pre.tunnel = 4
  /\ node.tunnelBackoffIndex = 4 /\ node.tunnelBackoffMs = 60000

(* an ack after the backoff had advanced *)
AckResetsTunnelStep ==
  RegisterAckOk(obs) /\ hist.pre.tunnel > 0 /\ node.tunnelBackoffIndex = 0

PingSent(o) == \E i \in 1..Len(o.frames) : o.frames[i].type = "ping"

(* A tick is about to find the keepalive due: the client's loop runs on a  *)
(* connected, registered tunnel whose last ping is 25 s old.               *)
PingDue ==
  /\ wifiUp /\ node.state \in {"ACTIVE", "TUNNEL_CONNECTING", "TUNNEL_CONNECTED"}
  /\ ClientLoopRuns /\ ws.connected /\ node.tunnelRegistered
  /\ now - node.lastTunnelPingMs >= kTunnelPingIntervalMs

(* C34: while the tunnel is registered a ping frame is sent every 25 s     *)
(* (never while unregistered), and a failure to send the ping sets the     *)
(* pending-disconnect flag, so that the tunnel is torn down and            *)
(* reconnected.                                                            *)
C34_PingOrTeardown ==
  [][ /\ PingSent(obs') =>
           /\ node.tunnelRegistered /\ node'.tunnelRegistered
           /\ now' - node.lastTunnelPingMs >= kTunnelPingIntervalMs
      /\ PingDue /\ obs'.op = "tick" /\ ~RegisterAckOk(obs') =>
           PingSent(obs') \/ ws'.pending ]_vars

(* the first half alone: when pings are sent *)
PingOnlyWhenDue ==
  [][ PingSent(obs') =>
        /\ node.tunnelRegistered /\ node'.tunnelRegistered
        /\ now' - node.lastTunnelPingMs >= kTunnelPingIntervalMs
        /\ node'.lastTunnelPingMs = now' ]_vars

(* the ping was due, was not sent, and the tunnel is left as it was *)
C34_PingFailureIgnored ==
  /\ obs.op = "tick" /\ obs.m = NoMsg /\ ~PingSent(obs)
  /\ ws.client # "null" /\ ws.connected /\ ~ws.pending /\ node.tunnelRegistered
  /\ now - node.lastTunnelPingMs >= kTunnelPingIntervalMs

KeepaliveSent ==
  obs.op = "tick" /\ PingSent(obs) /\ node.lastTunnelPingMs = now

----------------------------------------------------------------------------
(* The earlier variant: command pull *)

(* the commands of the pull the tick made, if the hub answered it 2xx *)
PulledCmds(o) ==
  LET p == SelectSeq(o.reqs, LAMBDA q : q.ep = "pull" /\ Is2xx(q.status))
  IN IF p = <<>> THEN <<>> ELSE p[1].cmds

AckStatuses(o) == [i \in 1..Len(ReqsOf(o, {"ack"})) |-> ReqsOf(o, {"ack"})[i].status]

(* C35: after a command pull that returned N commands an ack is attempted  *)
(* for each of them, even when earlier acks fail, and an ack failure is    *)
(* still recorded in last_error when the pull returns.                     *)
C35_AcksAttemptedAndRecorded ==
  obs.op = "tick" =>
    LET c == SelectSeq(PulledCmds(obs), LAMBDA x : x.valid)
    IN /\ AckStatuses(obs) = [i \in 1..Len(c) |-> c[i].ack]
       /\ (\E i \in 1..Len(c) : ~Is2xx(c[i].ack)) => node.last_error = "command ack failed"

(* the first half alone: one ack per command that has an id and an action, *)
(* in order, whatever the earlier acks returned                            *)
EveryCommandAcked ==
  obs.op = "tick" =>
    LET c == SelectSeq(PulledCmds(obs), LAMBDA x : x.valid)
    IN AckStatuses(obs) = [i \in 1..Len(c) |-> c[i].ack]

(* two commands, the first ack refused, the second still sent; nothing     *)
(* recorded afterwards                                                     *)
C35_AckFailureForgotten ==
  /\ obs.op = "tick" /\ Len(PulledCmds(obs)) = 2
  /\ AckStatuses(obs) = <<500, 200>>
  /\ node.last_error = ""

----------------------------------------------------------------------------
(* PENDING_POLL under fairness.  The sketch's loop() calls loopTick() for  *)
(* ever and the clock advances: a PENDING_POLL tick or a step of the clock *)
(* that stays possible is taken.                                           *)
(* The configuration is the one with self-approve alone (no               *)
(* register-by-slot); PAIR_SUBMIT is not entered under it.                 *)
PollConfig == MkCfg(TRUE, TRUE, FALSE, TRUE, FALSE)

InitPoll ==
  /\ cfg = PollConfig
  /\ node = InitNode
  /\ ws = InitWs
  /\ now = 0
  /\ wifiUp \in BOOLEAN
  /\ obs = IdleObs
  /\ hist = InitHist

NextPoll ==
  \/ TickLinkDown
  \/ TickBoot
  \/ TickHello
  \/ TickPendingPoll
  \/ TickTunnel
  \/ TickError
  \/ Elapse
  \/ WiFiChange
  \/ SetSessionToken
  \/ TunnelDisconnect

SpecPollFair ==
  InitPoll /\ [][NextPoll]_vars /\ WF_vars(TickPendingPoll) /\ WF_vars(Elapse)

PollRequestSent(o) ==
  o.op = "tick" /\ (SentIn(o, "register_by_slot") \/ SentIn(o, "approve") \/ SentIn(o, "session"))

(* a request of PENDING_POLL is scheduled for a time the clock of the      *)
(* model, stopped at MaxNow, never shows                                   *)
PollBeyondClock ==
  /\ \A d \in ElapseSteps : now + d > MaxNow
  /\ \/ cfg.preferRegisterBySlot /\ cfg.loginToken /\ now < node.nextRegisterBySlotMs
     \/ node.sessionToken = "" /\ now < node.nextSessionPollMs

(* C36: PENDING_POLL cannot stall: with the link up and ticks continuing,  *)
(* from any reachable PENDING_POLL configuration the node eventually sends *)
(* a register-by-slot, approve or session-poll request or leaves           *)
(* PENDING_POLL.                                                           *)
C36_PendingPollProgress ==
  [](node.state = "PENDING_POLL" =>
       <>(PollRequestSent(obs) \/ node.state # "PENDING_POLL" \/ ~wifiUp \/ PollBeyondClock))

(* PENDING_POLL holding a session token, register-by-slot not configured:  *)
(* no branch of the case sends anything                                    *)
PendingPollWithToken ==
  /\ node.state = "PENDING_POLL" /\ node.sessionToken # ""
  /\ ~(cfg.preferRegisterBySlot /\ cfg.loginToken)

C36_StalledWithToken ==
  PendingPollWithToken /\ wifiUp /\ obs.op = "tick" /\ obs.reqs = <<>>

(* no tick leaves that configuration *)
PendingPollWithTokenStays ==
  [][PendingPollWithToken /\ obs'.op = "tick" => node' = node /\ obs'.reqs = <<>>]_vars

----------------------------------------------------------------------------
(* C37: the calls of the tunnel-change observer strictly alternate,        *)
(* starting with up: a down is reported only after an up that no down has  *)
(* followed yet, and two ups never without a down in between.              *)
C37_TunnelCallsAlternate ==
  LET s == TunnelCalls(obs.cbs)
      before(i) == IF i = 1 THEN hist.pre.tunnelCb ELSE s[i - 1]
  IN \A i \in 1..Len(s) :
       /\ s[i] = "down" => before(i) = "up"
       /\ s[i] = "up" => before(i) # "up"

(* the first call the observer ever gets is a down: the connect attempt    *)
(* failed before the socket opened, and the tick after it tore down        *)
C37_DownBeforeAnyUp ==
  /\ obs.op = "tick" /\ TunnelCalls(obs.cbs) = <<"down">>
  /\ hist.pre.tunnelCb = "none" /\ hist.apiCalls = 0

(* up and down in turn *)
DownAfterUp ==
  obs.op = "tick" /\ TunnelCalls(obs.cbs) = <<"down">> /\ hist.pre.tunnelCb = "up"

(* the ups do alternate with downs *)
UpsAlternate ==
  LET s == TunnelCalls(obs.cbs)
      before(i) == IF i = 1 THEN hist.pre.tunnelCb ELSE s[i - 1]
  IN \A i \in 1..Len(s) : s[i] = "up" => before(i) # "up"

(* C38: whenever a tick has returned, state TUNNEL_CONNECTING or           *)
(* TUNNEL_CONNECTED implies that a WebSocket client instance exists; if a  *)
(* connect attempt is skipped or abandoned the state is ACTIVE.            *)
C38_TunnelStateHasClient ==
  [][ obs'.op = "tick" =>
        /\ node'.state \in {"TUNNEL_CONNECTING", "TUNNEL_CONNECTED"} => ws'.client # "null"
        /\ ConnectSkippedForToken => node'.state = "ACTIVE" ]_vars

(* the attempt was skipped for lack of a session token and the state says  *)
(* connecting                                                              *)
C38_ConnectingWithoutClient ==
  /\ obs.op = "tick" /\ node.state = "TUNNEL_CONNECTING" /\ ws.client = "null"
  /\ node.sessionToken = "" /\ StateCbs(obs) # <<>>

(* TUNNEL_CONNECTED does have its client *)
ConnectedHasClient ==
  obs.op = "tick" /\ node.state = "TUNNEL_CONNECTED" => ws.client # "null"

(* C39: the teardown is safe against re-entrancy: an event delivered      *)
(* while the main loop is disconnecting and destroying the client (the     *)
(* Disconnected callback raised from inside disconnect()) neither reaches  *)
(* the node nor re-arms the pending-disconnect flag, so one disconnect     *)
(* causes exactly one teardown and one advance of the tunnel backoff.      *)
C39_TeardownNotReentered ==
  [][ /\ TunnelDownEmitted(obs') =>
           /\ TunnelCalls(obs'.cbs) = <<"down">>
           /\ ws'.pending => (ws.pending /\ obs'.op = "tunnelDisconnect")
           /\ ws'.client = "null" /\ ~ws'.nodeForWs
           /\ node'.tunnelBackoffIndex = Min(node.tunnelBackoffIndex + 1, 4)
           /\ ~hist'.uaf /\ ~hist'.freedInCb
      /\ obs'.op = "tick" /\ (~ws.pending \/ TunnelDownEmitted(obs)) => ~TunnelDownEmitted(obs') ]_vars

(* a deferred teardown during which disconnect() raised the callback *)
C39_EventDuringTeardown ==
  /\ obs.op = "tick" /\ obs.late /\ TunnelDownEmitted(obs)
  /\ ~ws.pending /\ ws.client = "null"
  /\ node.tunnelBackoffIndex = hist.pre.tunnel + 1

(* the same from the public tunnelDisconnect() *)
EventDuringApiTeardown ==
  obs.op = "tunnelDisconnect" /\ obs.late /\ TunnelDownEmitted(obs) /\ ~ws.pending

----------------------------------------------------------------------------
ProxyResponses(o) == SelectSeq(o.frames, LAMBDA f : f.type = "proxy_response")

(* C40: for one inbound proxy_request at most one proxy_response frame is  *)
(* sent, whether the built-in path, the user handler or both call end(),   *)
(* and however many times.                                                 *)
C40_OneProxyResponse ==
  obs.m.kind = "proxy_request" => Len(ProxyResponses(obs)) <= 1

(* built-in path, a handler that calls end() twice, the closing end(): one *)
(* frame                                                                   *)
C40_HandlerEndsTwice ==
  /\ obs.op = "tick" /\ obs.m.kind = "proxy_request"
  /\ cfg.httpRequestCb.registered /\ cfg.httpRequestCb.endCalls = 2
  /\ Len(ProxyResponses(obs)) = 1

====
